---- MODULE Spec2Model ----
(***************************************************************************)
(* Model of the notebooks of the appyter catalog.                          *)
(*                                                                         *)
(* Spec, SpecGmt: the "Dataset Pair Attribute Similarity" notebook         *)
(* (src/appyters/ABA_Harmonizome_ETL/ABA.ipynb, second notebook, lines     *)
(* 849-1226): load_gmt, the gene universe, the pairwise Jaccard / Fisher   *)
(* loop, and the jtop / ftop / top tables.                                 *)
(* SpecInterleaved: the same loops (lines 1048-1059) run by two workers at *)
(* a time, statement by statement, on the globals of the notebook.         *)
(*                                                                         *)
(* SpecRemap: the symbol-remapping loop of Reactome.ipynb, lines 298-304.  *)
(* SpecNotebook: the statements of ABA.ipynb (lines 359-816) and of        *)
(* Reactome.ipynb (lines 353-790) that call harmonizome.utility_functions  *)
(* or make the knowledge-graph file, in cell order, with the globals they  *)
(* bind and the files they write.                                          *)
(* SpecKg: the knowledge-graph cells of Reactome.ipynb (lines 536-599),    *)
(* edge by edge.                                                           *)
(* SpecUf: the functions of harmonizome.utility_functions, call by call,   *)
(* on small matrices.                                                      *)
(*                                                                         *)
(* A gene-set library (a Python dict in insertion order) is a sequence of  *)
(* gene sets: the term of an entry is its position.  Exact fractions       *)
(* [num, den] stand for the floats the notebooks store.                    *)
(***************************************************************************)
EXTENDS Integers, Sequences, FiniteSets, TLC

\* ------------------------------------------------------------------ bounds
\* genes are 1..MaxGenes
MaxGenes == 2
\* a library has at most MaxTerms gene sets
MaxTerms == 2
\* the number of rows the slice of line 1100 keeps: 1000 in the notebook,
\* scaled down here to the model's pair counts (at most MaxTerms * MaxTerms
\* pairs) so that the cut is reachable
TopK == 3
\* 1/Epsilon is the tolerance fisher.pvalue adds to its cutoff (1e-6)
EpsilonInv == 1000000
\* a GMT file has at most MaxLines lines of at most MaxLineLen characters
MaxLines == 2
MaxLineLen == 5

\* a frame df of the Reactome notebook has at most MaxDfRows rows
MaxDfRows == 3

\* a matrix has at most MaxRows rows and MaxCols columns
MaxRows == 2
MaxCols == 2

\* at most MaxCalls calls of uf are composed
MaxCalls == 2

Genes == 1..MaxGenes

\* ------------------------------------------------------- exact arithmetic
Abs(x) == IF x < 0 THEN -x ELSE x

Min(x, y) == IF x < y THEN x ELSE y

Max(x, y) == IF x < y THEN y ELSE x

RECURSIVE GCD(_, _)
GCD(x, y) == IF y = 0 THEN x ELSE GCD(y, x % y)

\* the fraction n/d (d > 0) in lowest terms
Rat(n, d) ==
  LET g == GCD(Abs(n), d)
  IN  [num |-> n \div g, den |-> d \div g]

Zero == [num |-> 0, den |-> 1]

One == [num |-> 1, den |-> 1]

RatLess(x, y) == x.num * y.den < y.num * x.den

RatLeq(x, y) == x.num * y.den <= y.num * x.den

RECURSIVE Choose(_, _)
\* binomial coefficient; 0 outside 0..n
Choose(n, k) ==
  IF k < 0 \/ k > n THEN 0
  ELSE IF k = 0 THEN 1
  ELSE (Choose(n - 1, k - 1) * n) \div k

RECURSIVE SumOver(_, _)
\* sum of w[x] over the finite set S
SumOver(S, w) ==
  IF S = {} THEN 0
  ELSE LET x == CHOOSE y \in S : TRUE
       IN  w[x] + SumOver(S \ {x}, w)

\* ---------------------------------------------------------------- state
VARIABLES
  ds1,        \* library 1: sequence of gene sets (line 968)
  ds2,        \* library 2: sequence of gene sets (line 1013)
  pc,         \* the notebook cell that runs next
  genes,      \* number of distinct genes over both libraries (line 1035)
  jaccard,    \* DataFrame jaccard: [row, column] -> value (line 1044)
  fisherp,    \* DataFrame fisherp: [row, column] -> value (line 1045)
  intersect,  \* dict intersect: (row, column) -> gene set (line 1046)
  pos,        \* number of (i, j) pairs the loop has completed
  jtop,       \* table jtop (line 1078): rows [i, j, Jaccard]
  ftop,       \* table ftop (lines 1088-1090): rows [i, j, p, q]
  top,        \* table top (lines 1100-1104)
  err,        \* the exception that stopped the run, or "none"
  globals,    \* the globals the loop of lines 1048-1059 binds, name -> value
  workers,    \* interleaved loop: per worker, the iteration and the line it is at
  claimed,    \* interleaved loop: the iterations handed out, <<i, 0>> and <<i, j>>
  file,       \* load_gmt: the lines of the file, each a sequence of characters
  gmtPos,     \* load_gmt: number of lines the loop has completed
  gmt,        \* load_gmt: the dict gmt, entries [term, geneset] in insertion order
  gmtPc,      \* load_gmt: "idle", "loop", "returned" or "raised"
  gmtErr,     \* load_gmt: the exception raised, or [type |-> "none"]
  df,         \* Reactome: the frame df, rows [gene, pathway] (line 273)
  symbol_lookup, \* Reactome: the table symbol_lookup (line 167)
  dupes,      \* Reactome: the variable dupes (line 298)
  count,      \* Reactome: the variable count (lines 299, 304)
  calls,      \* Reactome: number of calls of uf.map_symbols so far
  before,     \* Reactome: df.shape[0] when the latest call was made
  remapPc,    \* Reactome: "idle", "first", "test" or "done"
  notebook,   \* ETL: the notebook that runs, "ABA" or "Reactome"
  cellNo,     \* ETL: position of the statement that runs next
  env,        \* ETL: the globals of the notebook, name -> [data, prov]
  output,     \* ETL: the files of the output directory, name -> [data, prov]
  raisedAt,   \* ETL: line of the statement that raised, 0 if none did
  ufInput,    \* uf: the matrix the calls start from
  ufArg,      \* uf: the argument of the latest call
  ufRes,      \* uf: what the latest call returned
  ufCalls,    \* uf: the calls made so far, [fn, how, table] each
  binary_matrix,    \* KG: the gene by pathway matrix (Reactome line 353)
  geneid_lookup,    \* KG: gene symbol -> NCBI gene ID (Reactome line 167)
  pathwayid_lookup, \* KG: the dict of Reactome line 539
  nodes,      \* KG: dict nodes (Reactome line 548)
  edges,      \* KG: list edges (Reactome line 580)
  kgPos,      \* KG: number of 1-cells the loops of lines 584-599 have passed
  kgPc        \* KG: the cell that runs next, "done" or "raised"

ovVars ==
  <<ds1, ds2, pc, genes, jaccard, fisherp, intersect, pos, jtop, ftop, top, err,
    globals, workers, claimed>>

gmtVars == <<file, gmtPos, gmt, gmtPc, gmtErr>>

remapVars == <<df, symbol_lookup, dupes, count, calls, before, remapPc>>

nbVars == <<notebook, cellNo, env, output, raisedAt>>

ufVars == <<ufInput, ufArg, ufRes, ufCalls>>

kgVars == <<binary_matrix, geneid_lookup, pathwayid_lookup, nodes, edges, kgPos, kgPc>>

etlVars == <<remapVars, nbVars, ufVars, kgVars>>

vars == <<ovVars, gmtVars, etlVars>>

\* the overlap notebook is not running
OvIdle ==
  /\ ds1 = <<>>
  /\ ds2 = <<>>
  /\ pc = "idle"
  /\ genes = 0
  /\ jaccard = <<>>
  /\ fisherp = <<>>
  /\ intersect = <<>>
  /\ pos = 0
  /\ jtop = <<>>
  /\ ftop = <<>>
  /\ top = <<>>
  /\ err = "none"
  /\ globals = <<>>
  /\ workers = <<>>
  /\ claimed = {}

\* load_gmt is not running
GmtIdle ==
  /\ file = <<>>
  /\ gmtPos = 0
  /\ gmt = <<>>
  /\ gmtPc = "idle"
  /\ gmtErr = [type |-> "none"]

\* the symbol-remapping cell of the Reactome notebook is not running
RemapIdle ==
  /\ df = <<>>
  /\ symbol_lookup = <<>>
  /\ dupes = 0
  /\ count = 0
  /\ calls = 0
  /\ before = 0
  /\ remapPc = "idle"

\* no statement of the tables of the ETL notebooks is running
NotebookIdle ==
  /\ notebook = "none"
  /\ cellNo = 0
  /\ env = <<>>
  /\ output = <<>>
  /\ raisedAt = 0

\* no call of uf is being tried
UfIdle ==
  /\ ufInput = <<>>
  /\ ufArg = <<>>
  /\ ufRes = <<>>
  /\ ufCalls = <<>>

\* the knowledge-graph cells of the Reactome notebook are not running
KgIdle ==
  /\ binary_matrix = <<>>
  /\ geneid_lookup = <<>>
  /\ pathwayid_lookup = <<>>
  /\ nodes = <<>>
  /\ edges = <<>>
  /\ kgPos = 0
  /\ kgPc = "idle"

\* no cell of the two ETL notebooks is running
EtlIdle == RemapIdle /\ NotebookIdle /\ UfIdle /\ KgIdle

\* all libraries of at most MaxTerms gene sets over Genes
Libraries == UNION {[1..n -> SUBSET Genes] : n \in 0..MaxTerms}

Rows == 1..Len(ds1)

Cols == 1..Len(ds2)

Pairs == Rows \X Cols

\* the k-th pair (k = 0, 1, ...) of the nested loops of lines 1048 and 1050
PairAt(k) == <<(k \div Len(ds2)) + 1, (k % Len(ds2)) + 1>>

Init ==
  /\ ds1 \in Libraries
  /\ ds2 \in Libraries
  /\ pc = "universe"
  /\ genes = 0
  /\ jaccard = <<>>
  /\ fisherp = <<>>
  /\ intersect = <<>>
  /\ pos = 0
  /\ jtop = <<>>
  /\ ftop = <<>>
  /\ top = <<>>
  /\ err = "none"
  /\ globals = <<>>
  /\ workers = <<>>
  /\ claimed = {}
  /\ GmtIdle
  /\ EtlIdle

\* ------------------------------------------------------ lines 1030-1035
UniverseSize ==
  Cardinality(UNION ({ds1[i] : i \in Rows} \cup {ds2[j] : j \in Cols}))

Universe ==
  /\ pc = "universe"
  /\ genes' = UniverseSize
  /\ pc' = "frames"
  /\ UNCHANGED <<ds1, ds2, jaccard, fisherp, intersect, pos, jtop, ftop, top, err, globals, workers, claimed, gmtVars, etlVars>>

\* ------------------------------------------------------ lines 1044-1046
AllocFrames ==
  /\ pc = "frames"
  /\ jaccard' = [p \in Pairs |-> Zero]
  /\ fisherp' = [p \in Pairs |-> Zero]
  /\ intersect' = <<>>
  /\ pos' = 0
  /\ pc' = "loop"
  /\ UNCHANGED <<ds1, ds2, genes, jtop, ftop, top, err, globals, workers, claimed, gmtVars, etlVars>>

\* ------------------------------------------------------ lines 1052-1056
\* a = len(iset.intersection(jset))
CellA(iset, jset) == Cardinality(iset \cap jset)

\* b = len(iset.difference(jset))
CellB(iset, jset) == Cardinality(iset \ jset)

\* c = len(set.difference(iset)): the unbound method applied to iset alone,
\* with no set to subtract, returns a copy of iset; jset is not read
CellC(iset, jset) == Cardinality(iset)

\* d = genes - a - b - c
CellD(n, a, b, c) == n - a - b - c

\* ------------------------------------------------------------ line 1057
\* a/(a+b+c) raises ZeroDivisionError when the denominator is 0
JaccardRaises(a, b, c) == a + b + c = 0

\* mutant: the index reported as a percentage
JaccardValuePercent(a, b, c) == Rat(100 * a, a + b + c)

\* a/(a+b+c), for a non-zero denominator
JaccardValue(a, b, c) == Rat(a, a + b + c)

\* ------------------------------------------------------------ line 1058
\* fisher.pvalue(a, b, c, d).two_tail: the hypergeometric probabilities of
\* the tables with the margins of [[a, b], [c, d]] are w[x]/den for x in
\* lm..um; two_tail sums those below cutoff + 1e-6, cutoff being the
\* probability of the observed table, and is capped at 1.  With d < 0 the
\* observed table lies outside lm..um and its probability is computed from
\* factorials of negative numbers: cutoff is then any value, so the result
\* is the set of sums any cutoff can select.
FisherTwoTail(a, b, c, d) ==
  LET k == a
      n == a + b
      C == a + c
      N == C + b + d
      um == Min(n, C)
      lm == Max(0, n + C - N)
      den == Choose(N, n)
      w == [x \in lm..um |-> Choose(C, x) * Choose(N - C, n - x)]
      Below(cut) == {x \in lm..um : (w[x] - cut) * EpsilonInv < den}
      Cap(s) == IF s >= den THEN One ELSE Rat(s, den)
  IN  IF um = lm THEN {One}
      ELSE IF d >= 0 THEN {Cap(SumOver(Below(w[k]), w))}
      ELSE {Cap(SumOver(Below(cut), w)) : cut \in {0} \cup {w[x] : x \in lm..um}}

\* ------------------------------------------------------ lines 1048-1059
NPairs == Len(ds1) * Len(ds2)

\* the globals lines 1048-1056 have bound when the body of the pair ij
\* reaches line 1057: the loop variables i and j and the seven temporaries
BodyGlobals(ij) ==
  LET iset == ds1[ij[1]]
      jset == ds2[ij[2]]
      a == CellA(iset, jset)
      b == CellB(iset, jset)
      c == CellC(iset, jset)
  IN  [i |-> ij[1], j |-> ij[2], iset |-> iset, jset |-> jset,
       intersection |-> iset \cap jset,
       a |-> a, b |-> b, c |-> c, d |-> CellD(genes, a, b, c)]

\* the body of the inner loop for the pair ij = (i, j), lines 1049-1059, run
\* from its first statement to its last
LoopBody(ij) ==
  LET g == BodyGlobals(ij)
  IN  /\ ~JaccardRaises(g.a, g.b, g.c)
      /\ globals' = g
      /\ jaccard' = [jaccard EXCEPT ![ij] = JaccardValue(g.a, g.b, g.c)]
      /\ \E p \in FisherTwoTail(g.a, g.b, g.c, g.d) :
           fisherp' = [fisherp EXCEPT ![ij] = p]
      /\ intersect' = [q \in (DOMAIN intersect) \cup {ij} |->
                         IF q = ij THEN g.intersection ELSE intersect[q]]

\* the division of line 1057 raises for the pair ij
LoopBodyRaises(ij) ==
  LET g == BodyGlobals(ij) IN JaccardRaises(g.a, g.b, g.c)

\* one iteration of the inner loop body, lines 1051-1059
PairStep ==
  /\ pc = "loop"
  /\ pos < NPairs
  /\ LoopBody(PairAt(pos))
  /\ pos' = pos + 1
  /\ UNCHANGED <<ds1, ds2, pc, genes, jtop, ftop, top, err, workers, claimed, gmtVars, etlVars>>

\* the division of line 1057 raises: the cell stops, nothing of this pair
\* is stored and no later cell runs; the globals bound by lines 1048-1056
\* stay bound
PairStepRaises ==
  /\ pc = "loop"
  /\ pos < NPairs
  /\ LoopBodyRaises(PairAt(pos))
  /\ globals' = BodyGlobals(PairAt(pos))
  /\ pc' = "failed"
  /\ err' = "ZeroDivisionError"
  /\ UNCHANGED <<ds1, ds2, genes, jaccard, fisherp, intersect, pos, jtop, ftop, top, workers, claimed, gmtVars, etlVars>>

\* both loops are exhausted (lines 1061-1062 display the frames); when ds2
\* is empty the outer loop alone has run and has bound i and iset
EndLoop ==
  /\ pc = "loop"
  /\ pos = NPairs
  /\ workers = <<>>
  /\ globals' = IF Len(ds1) > 0 /\ Len(ds2) = 0
                THEN [i |-> Len(ds1), iset |-> ds1[Len(ds1)]]
                ELSE globals
  /\ pc' = "jtop"
  /\ UNCHANGED <<ds1, ds2, genes, jaccard, fisherp, intersect, pos, jtop, ftop, top, err, workers, claimed, gmtVars, etlVars>>

\* --------------------------------------------------------- sort_values
\* sort_values(ascending=False) of the stacked Jaccard values (line 1078)
JaccardBefore(r1, r2) == RatLess(r2.Jaccard, r1.Jaccard)

\* sort_values('q') (line 1090)
QBefore(r1, r2) == RatLess(r1.q, r2.q)

\* r1 must precede r2 in the table sorted on `by`
Before(by, r1, r2) ==
  IF by = "Jaccard" THEN JaccardBefore(r1, r2) ELSE QBefore(r1, r2)

RECURSIVE SortedSeqs(_, _)
\* every arrangement of the rows S in which no row comes after a row it is
\* Before: what sort_values may return, the order of ties being unspecified
\* (the default kind, quicksort, is not stable)
SortedSeqs(S, by) ==
  IF S = {} THEN {<<>>}
  ELSE UNION {{<<x>> \o s : s \in SortedSeqs(S \ {x}, by)} :
                x \in {y \in S : \A z \in S : ~Before(by, z, y)}}

\* ------------------------------------------------------------ line 1078
\* jaccard.stack(): one row per cell
JaccardStack == {[i |-> p[1], j |-> p[2], Jaccard |-> jaccard[p]] : p \in Pairs}

Jtop ==
  /\ pc = "jtop"
  /\ jtop' \in SortedSeqs(JaccardStack, "Jaccard")
  /\ pc' = "ftop"
  /\ UNCHANGED <<ds1, ds2, genes, jaccard, fisherp, intersect, pos, ftop, top, err, globals, workers, claimed, gmtVars, etlVars>>

\* ------------------------------------------------------ lines 1088-1090
\* mutant: rank(method='min'), tied values all take the lowest position
Rank2Min(p) ==
  2 * Cardinality({x \in Pairs : RatLess(fisherp[x], fisherp[p])}) + 2

\* twice ftop['p'].rank(): the default method gives tied values the average
\* of the positions they occupy in ascending order
Rank2(p) ==
  2 * Cardinality({x \in Pairs : RatLess(fisherp[x], fisherp[p])})
    + Cardinality({x \in Pairs : fisherp[x] = fisherp[p]}) + 1

\* ftop['p'] * ftop.shape[0] / ftop['p'].rank()
QValue(p) == Rat(fisherp[p].num * NPairs * 2, fisherp[p].den * Rank2(p))

FisherStack ==
  {[i |-> p[1], j |-> p[2], p |-> fisherp[p], q |-> QValue(p)] : p \in Pairs}

Ftop ==
  /\ pc = "ftop"
  /\ ftop' \in SortedSeqs(FisherStack, "q")
  /\ pc' = "top"
  /\ UNCHANGED <<ds1, ds2, genes, jaccard, fisherp, intersect, pos, jtop, top, err, globals, workers, claimed, gmtVars, etlVars>>

\* ------------------------------------------------------ lines 1100-1104
\* the row of ftop for the pair (i, j)
FtopRow(i, j) == CHOOSE r \in {ftop[n] : n \in 1..Len(ftop)} : r.i = i /\ r.j = j

\* mutant: the frames are joined by position, not by their (i, j) index
ConcatByPosition ==
  [n \in 1..Len(jtop) |->
     [i |-> jtop[n].i, j |-> jtop[n].j, Jaccard |-> jtop[n].Jaccard,
      p |-> ftop[n].p, q |-> ftop[n].q]]

\* pd.concat([jtop, ftop], axis=1): the rows of jtop, in jtop's order, each
\* joined with the row of ftop for the same pair
Concat ==
  [n \in 1..Len(jtop) |->
     [i |-> jtop[n].i, j |-> jtop[n].j, Jaccard |-> jtop[n].Jaccard,
      p |-> FtopRow(jtop[n].i, jtop[n].j).p, q |-> FtopRow(jtop[n].i, jtop[n].j).q]]

\* mutant: ascending=[False,False], both columns descending
TopBeforeQDescending(r1, r2) ==
  \/ RatLess(r2.Jaccard, r1.Jaccard)
  \/ r1.Jaccard = r2.Jaccard /\ RatLess(r2.q, r1.q)

\* sort_values(['Jaccard','q'], ascending=[False,True])
TopBefore(r1, r2) ==
  \/ RatLess(r2.Jaccard, r1.Jaccard)
  \/ r1.Jaccard = r2.Jaccard /\ RatLess(r1.q, r2.q)

RECURSIVE StableSort(_)
\* sorting on several columns is a lexsort, which is stable: rows equal on
\* both columns keep the order they have in s
StableSort(s) ==
  IF s = <<>> THEN <<>>
  ELSE LET t == StableSort(SubSeq(s, 1, Len(s) - 1))
           x == s[Len(s)]
           k == Cardinality({n \in 1..Len(t) : ~TopBefore(x, t[n])})
       IN  SubSeq(t, 1, k) \o <<x>> \o SubSeq(t, k + 1, Len(t))

\* [:1000]
Slice(s) == SubSeq(s, 1, Min(TopK, Len(s)))

RECURSIVE JoinOrders(_)
\* ','.join(S): the genes of S, each once, in the set's iteration order
JoinOrders(S) ==
  IF S = {} THEN {<<>>}
  ELSE UNION {{<<x>> \o s : s \in JoinOrders(S \ {x})} : x \in S}

RECURSIVE Annotated(_)
\* line 1102: every way to add to each row of s the join of intersect[i, j]
Annotated(s) ==
  IF s = <<>> THEN {<<>>}
  ELSE LET r == s[Len(s)]
       IN  {t \o <<[i |-> r.i, j |-> r.j, Jaccard |-> r.Jaccard, p |-> r.p,
                    q |-> r.q, intersect |-> g]>> :
              t \in Annotated(SubSeq(s, 1, Len(s) - 1)),
              g \in JoinOrders(intersect[<<r.i, r.j>>])}

Top ==
  /\ pc = "top"
  /\ NPairs > 0
  /\ top' \in Annotated(Slice(StableSort(Concat)))
  /\ pc' = "done"
  /\ UNCHANGED <<ds1, ds2, genes, jaccard, fisherp, intersect, pos, jtop, ftop, err, globals, workers, claimed, gmtVars, etlVars>>

\* with no pair the frame of line 1100 is empty: top.apply(..., axis=1) on an
\* empty frame returns a copy of the frame instead of a column, and the
\* assignment of line 1102 raises ValueError
TopRaises ==
  /\ pc = "top"
  /\ NPairs = 0
  /\ top' = <<>>
  /\ pc' = "failed"
  /\ err' = "ValueError"
  /\ UNCHANGED <<ds1, ds2, genes, jaccard, fisherp, intersect, pos, jtop, ftop, globals, workers, claimed, gmtVars, etlVars>>

\* ------------------------------------------------ load_gmt, lines 913-918
TAB == "\t"

SPACE == " "

\* the characters of the model's files: the separator and one letter
Chars == {TAB, "a"}

\* the characters str.strip() removes (of the model's characters, TAB)
Whitespace == {TAB, SPACE}

Lines == UNION {[1..n -> Chars] : n \in 0..MaxLineLen}

RECURSIVE LStrip(_)
LStrip(s) ==
  IF s # <<>> /\ s[1] \in Whitespace THEN LStrip(SubSeq(s, 2, Len(s))) ELSE s

RECURSIVE RStrip(_)
RStrip(s) ==
  IF s # <<>> /\ s[Len(s)] \in Whitespace THEN RStrip(SubSeq(s, 1, Len(s) - 1)) ELSE s

\* mutant: the line is split without being stripped
StripNothing(s) == s

\* line.strip(): without its leading and trailing whitespace
Strip(s) == RStrip(LStrip(s))

RECURSIVE Split(_)
\* s.split('\t'): the fields between the tabs; a string without a tab (the
\* empty string too) is one field
Split(s) ==
  IF \A n \in 1..Len(s) : s[n] # TAB THEN <<s>>
  ELSE LET k == CHOOSE n \in 1..Len(s) :
                  s[n] = TAB /\ \A m \in 1..(n - 1) : s[m] # TAB
       IN  <<SubSeq(s, 1, k - 1)>> \o Split(SubSeq(s, k + 1, Len(s)))

\* line.strip().split('\t')
Fields(line) == Split(Strip(line))

\* term, description, *geneset = ... needs at least two fields
UnpackRaises(fields) == Len(fields) < 2

\* set(geneset): the fields after term and description
GeneSetOf(fields) == {fields[n] : n \in 3..Len(fields)}

\* mutant: an existing key keeps the gene set it has
DictSetKeepFirst(d, term, geneset) ==
  IF \E n \in 1..Len(d) : d[n].term = term THEN d
  ELSE Append(d, [term |-> term, geneset |-> geneset])

\* gmt[term] = geneset: a new key is appended, an existing key keeps its
\* place and takes the new value
DictSet(d, term, geneset) ==
  IF \E n \in 1..Len(d) : d[n].term = term
  THEN [n \in 1..Len(d) |->
          IF d[n].term = term THEN [term |-> term, geneset |-> geneset] ELSE d[n]]
  ELSE Append(d, [term |-> term, geneset |-> geneset])

InitGmt ==
  /\ ds1 = <<>>
  /\ ds2 = <<>>
  /\ pc = "idle"
  /\ genes = 0
  /\ jaccard = <<>>
  /\ fisherp = <<>>
  /\ intersect = <<>>
  /\ pos = 0
  /\ jtop = <<>>
  /\ ftop = <<>>
  /\ top = <<>>
  /\ err = "none"
  /\ globals = <<>>
  /\ workers = <<>>
  /\ claimed = {}
  /\ \E n \in 0..MaxLines : file \in [1..n -> Lines]
  /\ gmtPos = 0
  /\ gmt = <<>>
  /\ gmtPc = "loop"
  /\ gmtErr = [type |-> "none"]
  /\ EtlIdle

\* one iteration of the loop of line 915 whose unpacking succeeds
GmtLine ==
  /\ gmtPc = "loop"
  /\ gmtPos < Len(file)
  /\ LET fields == Fields(file[gmtPos + 1])
     IN  /\ ~UnpackRaises(fields)
         /\ gmt' = DictSet(gmt, fields[1], GeneSetOf(fields))
  /\ gmtPos' = gmtPos + 1
  /\ UNCHANGED <<file, gmtPc, gmtErr, ovVars, etlVars>>

\* the unpacking of line 916 raises ValueError("not enough values to unpack
\* (expected at least 2, got N)"); load_gmt has no handler, so the exception
\* leaves it: nothing is returned
GmtLineRaises ==
  /\ gmtPc = "loop"
  /\ gmtPos < Len(file)
  /\ LET fields == Fields(file[gmtPos + 1])
     IN  /\ UnpackRaises(fields)
         /\ gmtErr' = [type |-> "ValueError", expected |-> 2, got |-> Len(fields)]
  /\ gmtPc' = "raised"
  /\ UNCHANGED <<file, gmtPos, gmt, ovVars, etlVars>>

\* line 918: the loop is exhausted and gmt is returned
GmtReturn ==
  /\ gmtPc = "loop"
  /\ gmtPos = Len(file)
  /\ gmtPc' = "returned"
  /\ UNCHANGED <<file, gmtPos, gmt, gmtErr, ovVars, etlVars>>

NextGmt ==
  \/ GmtLine
  \/ GmtLineRaises
  \/ GmtReturn

SpecGmt == InitGmt /\ [][NextGmt]_vars

Next ==
  \/ Universe
  \/ AllocFrames
  \/ PairStep
  \/ PairStepRaises
  \/ EndLoop
  \/ Jtop
  \/ Ftop
  \/ Top
  \/ TopRaises

Spec == Init /\ [][Next]_vars

\* ----------------------------- the loop of lines 1048-1059, interleaved
\* The two loops run as a map by Workers workers, one statement at a time.
\* A worker enters an iteration of the outer loop (line 1048) for a row that
\* has work left, runs line 1049, and then takes iterations of the inner
\* loop (line 1050) for the pairs of the row nobody has taken, running lines
\* 1051-1059 for each.  Which iteration a worker is in is its own (the
\* position of its iterators); i, j, iset, jset, intersection, a, b, c and d
\* are what they are in the notebook, globals, and so are shared by the
\* workers.  One worker taking the rows and the pairs in their order is the
\* run of the notebook.
Workers == {1, 2}

\* the interleaved map is run on libraries of at most MaxMapped pairs
MaxMapped == 2

\* the worker is in no iteration
Resting == [pair |-> <<0, 0>>, at |-> 0]

InitInterleaved ==
  /\ ds1 \in Libraries
  /\ ds2 \in Libraries
  /\ Len(ds1) * Len(ds2) <= MaxMapped
  /\ pc = "universe"
  /\ genes = 0
  /\ jaccard = <<>>
  /\ fisherp = <<>>
  /\ intersect = <<>>
  /\ pos = 0
  /\ jtop = <<>>
  /\ ftop = <<>>
  /\ top = <<>>
  /\ err = "none"
  /\ globals = <<>>
  /\ workers = [w \in Workers |-> Resting]
  /\ claimed = {}
  /\ GmtIdle
  /\ EtlIdle

\* the globals with `name` bound to `value`
Bind(name, value) ==
  [x \in DOMAIN globals \cup {name} |-> IF x = name THEN value ELSE globals[x]]

\* the worker w is at the statement of the given line
At(w, line) == pc = "loop" /\ workers[w].at = line

\* the worker w goes on to the statement of the given line
Goto(w, line) == workers' = [workers EXCEPT ![w].at = line]

\* the pair the globals i and j name
PairOfGlobals == <<globals["i"], globals["j"]>>

\* line 1048: for i in tqdm(ds1): a worker enters the iteration of a row
\* that has not been entered or has pairs nobody has taken; i is bound
TakeRow ==
  \E w \in Workers, r \in Rows :
    /\ At(w, 0)
    /\ <<r, 0>> \notin claimed \/ \E c \in Cols : <<r, c>> \notin claimed
    /\ globals' = Bind("i", r)
    /\ workers' = [workers EXCEPT ![w] = [pair |-> <<r, 0>>, at |-> 1049]]
    /\ claimed' = claimed \cup {<<r, 0>>}
    /\ UNCHANGED <<ds1, ds2, pc, genes, jaccard, fisherp, intersect, pos, jtop, ftop, top, err, gmtVars, etlVars>>

\* line 1049: iset = ds1[i]
BindIset ==
  \E w \in Workers :
    /\ At(w, 1049)
    /\ globals' = Bind("iset", ds1[globals["i"]])
    /\ Goto(w, 1050)
    /\ UNCHANGED <<ds1, ds2, pc, genes, jaccard, fisherp, intersect, pos, jtop, ftop, top, err, claimed, gmtVars, etlVars>>

\* line 1050: for j in ds2: the worker takes a pair of its row; j is bound
TakePair ==
  \E w \in Workers, c \in Cols :
    /\ At(w, 1050)
    /\ <<workers[w].pair[1], c>> \notin claimed
    /\ globals' = Bind("j", c)
    /\ workers' = [workers EXCEPT ![w] = [pair |-> <<workers[w].pair[1], c>>, at |-> 1051]]
    /\ claimed' = claimed \cup {<<workers[w].pair[1], c>>}
    /\ UNCHANGED <<ds1, ds2, pc, genes, jaccard, fisherp, intersect, pos, jtop, ftop, top, err, gmtVars, etlVars>>

\* line 1050, the inner loop is exhausted: no pair of the row is left
RowDone ==
  \E w \in Workers :
    /\ At(w, 1050)
    /\ \A c \in Cols : <<workers[w].pair[1], c>> \in claimed
    /\ workers' = [workers EXCEPT ![w] = Resting]
    /\ UNCHANGED <<ds1, ds2, pc, genes, jaccard, fisherp, intersect, pos, jtop, ftop, top, err, globals, claimed, gmtVars, etlVars>>

\* line 1051: jset = ds2[j]
BindJset ==
  \E w \in Workers :
    /\ At(w, 1051)
    /\ globals' = Bind("jset", ds2[globals["j"]])
    /\ Goto(w, 1052)
    /\ UNCHANGED <<ds1, ds2, pc, genes, jaccard, fisherp, intersect, pos, jtop, ftop, top, err, claimed, gmtVars, etlVars>>

\* line 1052: intersection = iset.intersection(jset)
BindIntersection ==
  \E w \in Workers :
    /\ At(w, 1052)
    /\ globals' = Bind("intersection", globals["iset"] \cap globals["jset"])
    /\ Goto(w, 1053)
    /\ UNCHANGED <<ds1, ds2, pc, genes, jaccard, fisherp, intersect, pos, jtop, ftop, top, err, claimed, gmtVars, etlVars>>

\* line 1053: a = len(intersection)
BindA ==
  \E w \in Workers :
    /\ At(w, 1053)
    /\ globals' = Bind("a", Cardinality(globals["intersection"]))
    /\ Goto(w, 1054)
    /\ UNCHANGED <<ds1, ds2, pc, genes, jaccard, fisherp, intersect, pos, jtop, ftop, top, err, claimed, gmtVars, etlVars>>

\* line 1054: b = len(iset.difference(jset))
BindB ==
  \E w \in Workers :
    /\ At(w, 1054)
    /\ globals' = Bind("b", CellB(globals["iset"], globals["jset"]))
    /\ Goto(w, 1055)
    /\ UNCHANGED <<ds1, ds2, pc, genes, jaccard, fisherp, intersect, pos, jtop, ftop, top, err, claimed, gmtVars, etlVars>>

\* line 1055: c = len(set.difference(iset))
BindC ==
  \E w \in Workers :
    /\ At(w, 1055)
    /\ globals' = Bind("c", CellC(globals["iset"], globals["jset"]))
    /\ Goto(w, 1056)
    /\ UNCHANGED <<ds1, ds2, pc, genes, jaccard, fisherp, intersect, pos, jtop, ftop, top, err, claimed, gmtVars, etlVars>>

\* line 1056: d = genes - a - b - c
BindD ==
  \E w \in Workers :
    /\ At(w, 1056)
    /\ globals' = Bind("d", CellD(genes, globals["a"], globals["b"], globals["c"]))
    /\ Goto(w, 1057)
    /\ UNCHANGED <<ds1, ds2, pc, genes, jaccard, fisherp, intersect, pos, jtop, ftop, top, err, claimed, gmtVars, etlVars>>

\* line 1057: jaccard.loc[i,j] = a/(a+b+c)
StoreJaccard ==
  \E w \in Workers :
    /\ At(w, 1057)
    /\ ~JaccardRaises(globals["a"], globals["b"], globals["c"])
    /\ jaccard' = [jaccard EXCEPT ![PairOfGlobals] =
                     JaccardValue(globals["a"], globals["b"], globals["c"])]
    /\ Goto(w, 1058)
    /\ UNCHANGED <<ds1, ds2, pc, genes, fisherp, intersect, pos, jtop, ftop, top, err, globals, claimed, gmtVars, etlVars>>

\* line 1057 raises ZeroDivisionError: the run stops
StoreJaccardRaises ==
  \E w \in Workers :
    /\ At(w, 1057)
    /\ JaccardRaises(globals["a"], globals["b"], globals["c"])
    /\ pc' = "failed"
    /\ err' = "ZeroDivisionError"
    /\ UNCHANGED <<ds1, ds2, genes, jaccard, fisherp, intersect, pos, jtop, ftop, top, globals, workers, claimed, gmtVars, etlVars>>

\* line 1058: fisherp.loc[i,j] = fisher.pvalue(a, b, c, d).two_tail
StoreFisher ==
  \E w \in Workers :
    /\ At(w, 1058)
    /\ \E p \in FisherTwoTail(globals["a"], globals["b"], globals["c"], globals["d"]) :
         fisherp' = [fisherp EXCEPT ![PairOfGlobals] = p]
    /\ Goto(w, 1059)
    /\ UNCHANGED <<ds1, ds2, pc, genes, jaccard, intersect, pos, jtop, ftop, top, err, globals, claimed, gmtVars, etlVars>>

\* line 1059: intersect[i,j] = intersection; the iteration of the inner
\* loop ends and the worker is back at line 1050
StoreIntersect ==
  \E w \in Workers :
    /\ At(w, 1059)
    /\ intersect' = [q \in (DOMAIN intersect) \cup {PairOfGlobals} |->
                       IF q = PairOfGlobals THEN globals["intersection"]
                       ELSE intersect[q]]
    /\ pos' = pos + 1
    /\ workers' = [workers EXCEPT ![w] = [pair |-> <<workers[w].pair[1], 0>>, at |-> 1050]]
    /\ UNCHANGED <<ds1, ds2, pc, genes, jaccard, fisherp, jtop, ftop, top, err, globals, claimed, gmtVars, etlVars>>

\* both loops are exhausted: every row has been entered, every pair has been
\* taken and every worker is done
EndMap ==
  /\ pc = "loop"
  /\ \A w \in Workers : workers[w] = Resting
  /\ \A r \in Rows : <<r, 0>> \in claimed
  /\ Pairs \subseteq claimed
  /\ pos = NPairs
  /\ pc' = "jtop"
  /\ UNCHANGED <<ds1, ds2, genes, jaccard, fisherp, intersect, pos, jtop, ftop, top, err, globals, workers, claimed, gmtVars, etlVars>>

NextInterleaved ==
  \/ Universe
  \/ AllocFrames
  \/ TakeRow
  \/ BindIset
  \/ TakePair
  \/ RowDone
  \/ BindJset
  \/ BindIntersection
  \/ BindA
  \/ BindB
  \/ BindC
  \/ BindD
  \/ StoreJaccard
  \/ StoreJaccardRaises
  \/ StoreFisher
  \/ StoreIntersect
  \/ EndMap

SpecInterleaved == InitInterleaved /\ [][NextInterleaved]_vars

\* ================================= harmonizome.utility_functions (uf)
\* The package harmonizome (utility_functions, lookup) is not part of the
\* sources at hand; its functions are written from their description.
Symbols == {"TP53", "p53", "XYZ"}

\* the value of a lookup for a label the table does not hold
NoSymbol == "nan"

\* the lookup tables: a label is a key with a symbol, or is not a key
SymbolLookups == [Symbols -> Symbols \cup {NoSymbol}]

\* the NCBI gene IDs of the lookup tables tried; NoId is the null ID: a
\* symbol with the null ID is not a key of the gene-ID lookup
GeneIds == {7157}

NoId == 0

GeneIdLookups == [Symbols -> GeneIds \cup {NoId}]

\* a missing cell (NaN)
Missing == [num |-> 0, den |-> 0]

\* a cell holding a real number whose value is not computed here (a
\* logarithm, a quantile, a z-score)
SomeReal == [num |-> 1, den |-> 0]

RatAdd(x, y) == Rat(x.num * y.den + y.num * x.den, x.den * y.den)

RECURSIVE RatSum(_, _)
\* sum of val[c] over the finite set S of cells
RatSum(S, val) ==
  IF S = {} THEN Zero
  ELSE LET c == CHOOSE x \in S : TRUE
       IN  RatAdd(val[c], RatSum(S \ {c}, val))

\* mean of the cells S of val that are not missing; missing if there is none
MeanOver(S, val) ==
  LET present == {c \in S : val[c] # Missing}
  IN  IF present = {} THEN Missing
      ELSE IF \E c \in present : val[c] = SomeReal THEN SomeReal
      ELSE LET t == RatSum(present, val)
           IN  Rat(t.num, t.den * Cardinality(present))

\* the numbers of S in ascending order
Ascending(S) ==
  [k \in 1..Cardinality(S) |->
     CHOOSE i \in S : Cardinality({j \in S : j < i}) = k - 1]

\* A matrix is [rows, cols, val]: the row labels, the column labels and
\* the cell values val[i, j].  Cells(M) are its cell positions.
Cells(M) == (1..Len(M.rows)) \X (1..Len(M.cols))

\* the rows idx[1], idx[2], ... of M
TakeRows(M, idx) ==
  [rows |-> [k \in 1..Len(idx) |-> M.rows[idx[k]]],
   cols |-> M.cols,
   val  |-> [c \in (1..Len(idx)) \X (1..Len(M.cols)) |-> M.val[<<idx[c[1]], c[2]>>]]]

\* M.T
Transpose(M) ==
  [rows |-> M.cols,
   cols |-> M.rows,
   val  |-> [c \in (1..Len(M.cols)) \X (1..Len(M.rows)) |-> M.val[<<c[2], c[1]>>]]]

\* uf.map_symbols(M, lookup): every row label is replaced by the symbol the
\* table gives for it; the rows whose label the table does not hold are
\* dropped
MapSymbols(M, lookup) ==
  LET kept   == TakeRows(M, Ascending({i \in 1..Len(M.rows) : lookup[M.rows[i]] # NoSymbol}))
  IN  [kept EXCEPT !.rows = [i \in 1..Len(kept.rows) |-> lookup[kept.rows[i]]]]

\* the positions of s that hold the first occurrence of their element
FirstOccurrences(s) ==
  Ascending({i \in 1..Len(s) : \A k \in 1..(i - 1) : s[k] # s[i]})

\* mutant: of the rows sharing a label the first one is kept as it is
MergeRowKeepFirst(M) == TakeRows(M, FirstOccurrences(M.rows))

\* mutant: the merged rows come in the reverse of the order they had
MergeRowReversed(M) ==
  LET first == FirstOccurrences(M.rows)
      n     == Len(first)
      group(i) == {k \in 1..Len(M.rows) : M.rows[k] = M.rows[first[n + 1 - i]]}
  IN  [rows |-> [i \in 1..n |-> M.rows[first[n + 1 - i]]],
       cols |-> M.cols,
       val  |-> [c \in (1..n) \X (1..Len(M.cols)) |->
                   MeanOver(group(c[1]) \X {c[2]}, M.val)]]

\* uf.merge(M, 'row'): the rows sharing a label become one row, placed where
\* the first of them was, holding the mean of their values column by column
MergeRow(M) ==
  LET first == FirstOccurrences(M.rows)
      group(i) == {k \in 1..Len(M.rows) : M.rows[k] = M.rows[first[i]]}
  IN  [rows |-> [i \in 1..Len(first) |-> M.rows[first[i]]],
       cols |-> M.cols,
       val  |-> [c \in (1..Len(first)) \X (1..Len(M.cols)) |->
                   MeanOver(group(c[1]) \X {c[2]}, M.val)]]

\* mutant: the columns sharing a label are left as they are
MergeColumnUnmerged(M) == M

\* uf.merge(M, 'column')
MergeColumn(M) == Transpose(MergeRow(Transpose(M)))

\* uf.merge(M, axis)
Merge(M, axis) == IF axis = "row" THEN MergeRow(M) ELSE MergeColumn(M)

\* ================================================== Reactome.ipynb
\* --------------------------------------- uf.map_symbols on a long frame
\* the pathway labels of the frames: line 234 makes a label of the pathway
\* name, a space and the pathway ID.  A text is the sequence of its pieces:
\* SPACE, or a piece without whitespace.
Pathways ==
  { <<"Apoptosis", SPACE, "R-1">>,
    <<"Apoptosis", SPACE, "R-2">> }

\* the frames of at most MaxDfRows rows, one row per (gene, pathway) of the
\* exploded gene sets (lines 272-273)
Frames ==
  UNION {[1..n -> [gene : Symbols, pathway : Pathways]] :
           n \in 0..MaxDfRows}

RECURSIVE DropDuplicates(_)
\* the rows of s without the repetitions of an earlier row
DropDuplicates(s) ==
  IF s = <<>> THEN <<>>
  ELSE LET t == DropDuplicates(SubSeq(s, 1, Len(s) - 1))
           x == s[Len(s)]
       IN  IF \E n \in 1..Len(t) : t[n] = x THEN t ELSE Append(t, x)

\* uf.map_symbols(d, lookup, remove_duplicates=True)
MapSymbolsFrame(d, lookup) ==
  LET mapped == [n \in 1..Len(d) |->
                   [gene |-> lookup[d[n].gene], pathway |-> d[n].pathway]]
      known(r) == r.gene # NoSymbol
  IN  DropDuplicates(SelectSeq(mapped, known))

\* ------------------------------------------------------ lines 298-304
InitRemap ==
  /\ OvIdle
  /\ GmtIdle
  /\ KgIdle
  /\ NotebookIdle
  /\ UfIdle
  /\ df \in Frames
  /\ symbol_lookup \in SymbolLookups
  /\ dupes = 0
  /\ count = 0
  /\ calls = 0
  /\ before = 0
  /\ remapPc = "first"

\* lines 298-300: dupes, count and the first call
RemapFirst ==
  /\ remapPc = "first"
  /\ dupes' = Len(df)
  /\ count' = 0
  /\ before' = Len(df)
  /\ df' = MapSymbolsFrame(df, symbol_lookup)
  /\ calls' = calls + 1
  /\ remapPc' = "test"
  /\ UNCHANGED <<symbol_lookup, ovVars, gmtVars, nbVars, ufVars, kgVars>>

\* the condition of the while of line 302
RemapCondition == (dupes - Len(df) - count) # 0

\* lines 303-304: one pass of the loop body
RemapBody ==
  /\ remapPc = "test"
  /\ RemapCondition
  /\ before' = Len(df)
  /\ df' = MapSymbolsFrame(df, symbol_lookup)
  /\ count' = dupes - Len(df')
  /\ calls' = calls + 1
  /\ UNCHANGED <<symbol_lookup, dupes, remapPc, ovVars, gmtVars, nbVars, ufVars, kgVars>>

\* the condition of line 302 is false: the loop is left
RemapExit ==
  /\ remapPc = "test"
  /\ ~RemapCondition
  /\ remapPc' = "done"
  /\ UNCHANGED <<df, symbol_lookup, dupes, count, calls, before, ovVars, gmtVars, nbVars, ufVars, kgVars>>

NextRemap ==
  \/ RemapFirst
  \/ RemapBody
  \/ RemapExit

SpecRemap == InitRemap /\ [][NextRemap]_vars

\* ------------------------------------------- the other uf functions
\* the share of missing cells, in percent, above which remove_impute drops
\* a row or a column
MissingPercent == 95

\* the rows of M to drop: more than MissingPercent of their cells are missing
TooEmptyRows(M) ==
  {i \in 1..Len(M.rows) :
     100 * Cardinality({j \in 1..Len(M.cols) : M.val[<<i, j>>] = Missing})
       > MissingPercent * Len(M.cols)}

\* uf.remove_impute(M): the rows and the columns with too many missing cells
\* are dropped and the missing cells that remain are given an imputed value
RemoveImpute(M) ==
  LET rowsKept == Ascending((1..Len(M.rows)) \ TooEmptyRows(M))
      colsKept == Ascending((1..Len(M.cols)) \ TooEmptyRows(Transpose(M)))
      kept     == Transpose(TakeRows(Transpose(TakeRows(M, rowsKept)), colsKept))
  IN  [kept EXCEPT !.val = [c \in Cells(kept) |->
                              IF kept.val[c] = Missing THEN SomeReal ELSE kept.val[c]]]

\* uf.log2, uf.quantile_normalize, uf.zscore, uf.ternary_matrix: the stages
\* of spec 4.2 that work cell by cell, column by column in the row order of
\* the input, or row by row: a matrix with the labels of M whose cells hold
\* numbers not computed here
RealValued(M) == [M EXCEPT !.val = [c \in Cells(M) |-> SomeReal]]

\* uf.standardized_matrix(M): the specification names the standardized
\* matrix as an output table and gives no rule for it; it is taken to be a
\* Matrix of spec 3 derived from M, with the rows and columns of M
StandardizedMatrix(M) == [M EXCEPT !.val = [c \in Cells(M) |-> SomeReal]]

\* the table with the given row and column labels, cells not computed here
Table(rows, cols) ==
  [rows |-> rows, cols |-> cols,
   val |-> [c \in (1..Len(rows)) \X (1..Len(cols)) |-> SomeReal]]

\* uf.binary_matrix(frame): one row per gene, one column per pathway, in the
\* order of their first occurrence; a cell is 1 when the frame holds the
\* (gene, pathway) row and 0 otherwise
BinaryMatrix(frame) ==
  LET g  == [n \in 1..Len(frame) |-> frame[n].gene]
      pw == [n \in 1..Len(frame) |-> frame[n].pathway]
      gi == FirstOccurrences(g)
      pj == FirstOccurrences(pw)
  IN  [rows |-> [i \in 1..Len(gi) |-> g[gi[i]]],
       cols |-> [j \in 1..Len(pj) |-> pw[pj[j]]],
       val  |-> [c \in (1..Len(gi)) \X (1..Len(pj)) |->
                   IF \E n \in 1..Len(frame) :
                        frame[n].gene = g[gi[c[1]]] /\ frame[n].pathway = pw[pj[c[2]]]
                   THEN One ELSE Zero]]

\* ================== Reactome.ipynb, knowledge-graph cells (lines 536-599)
\* the text of a gene symbol: the symbol as one piece
Text(word) == <<word>>

\* str(n) for the gene IDs of the lookup tables tried
Str(n) == Text(CASE n = 7157 -> "7157")

RECURSIVE Words(_)
\* str.split(s): the runs of non-whitespace pieces of s
Words(s) ==
  IF s = <<>> THEN <<>>
  ELSE IF s[1] \in Whitespace THEN Words(Tail(s))
  ELSE LET stops == {n \in 1..Len(s) : s[n] \in Whitespace}
           k == IF stops = {} THEN Len(s) + 1
                ELSE CHOOSE n \in stops : \A m \in stops : n <= m
       IN  <<SubSeq(s, 1, k - 1)>> \o Words(SubSeq(s, k, Len(s)))

RECURSIVE JoinWords(_)
\* ' '.join(ws)
JoinWords(ws) ==
  IF ws = <<>> THEN <<>>
  ELSE IF Len(ws) = 1 THEN ws[1]
  ELSE ws[1] \o <<SPACE>> \o JoinWords(Tail(ws))

\* line 537, column 'Pathway': all words of the label but the last, joined
PathwayOf(label) ==
  LET ws == Words(label) IN JoinWords(SubSeq(ws, 1, Len(ws) - 1))

\* line 537, column 'Pathway ID': the last word of the label
PathwayIdOf(label) == LET ws == Words(label) IN ws[Len(ws)]

\* lines 536-539: attribute_list is indexed by the column labels of the
\* binary matrix; to_dict() gives column -> label -> value, the labels in
\* the order `keys` of the index
PathwayIdLookup(index) ==
  LET labels == {index[n] : n \in 1..Len(index)}
  IN  [keys      |-> index,
       Pathway   |-> [label \in labels |-> PathwayOf(label)],
       PathwayID |-> [label \in labels |-> PathwayIdOf(label)]]

\* the keys of the gene-ID lookup ids
LookupKeys(ids) == {g \in Symbols : ids[g] # NoId}

\* lines 550-559: the node of a gene of the gene-ID lookup
GeneNode(ids, gene) ==
  [type |-> "gene",
   id |-> Str(ids[gene]),
   label |-> Text(gene),
   URI |-> <<"https://www.ncbi.nlm.nih.gov/gene/">> \o Str(ids[gene])]

\* lines 560-571: the node of the pathway of a column label
PathwayNode(pwl, label) ==
  [type |-> "pathway",
   id |-> pwl.PathwayID[label],
   label |-> pwl.Pathway[label],
   URI |-> <<"https://www.reactome.org/content/detail/">> \o pwl.PathwayID[label]]

\* lines 548-571: a node per key of the gene-ID lookup, then a node per
\* column label under the pathway name of the label; an assignment to a key
\* the dict holds replaces the node
Nodes(ids, pwl) ==
  LET at == 1..Len(pwl.keys)
      geneKeys == {Text(g) : g \in LookupKeys(ids)}
      pathwayKeys == {pwl.Pathway[pwl.keys[n]] : n \in at}
      GeneOf(key) == CHOOSE g \in LookupKeys(ids) : Text(g) = key
      LastLabelOf(key) ==
        pwl.keys[CHOOSE n \in at :
                   /\ pwl.Pathway[pwl.keys[n]] = key
                   /\ \A m \in at : pwl.Pathway[pwl.keys[m]] = key => m <= n]
  IN  [key \in geneKeys \cup pathwayKeys |->
         IF key \in pathwayKeys THEN PathwayNode(pwl, LastLabelOf(key))
         ELSE GeneNode(ids, GeneOf(key))]

\* the cells of the binary matrix M that hold 1 (arr[:, i] == 1, line 585)
OneCells(M) == {c \in Cells(M) : M.val[c] = One}

\* the loops of lines 584 and 586 reach the cell x before the cell y:
\* column by column, the rows of a column from the top
ReachedBefore(x, y) == x[2] < y[2] \/ (x[2] = y[2] /\ x[1] < y[1])

\* the 1-cell of M the loops reach after k others
OneCellAt(M, k) ==
  CHOOSE c \in OneCells(M) :
    Cardinality({x \in OneCells(M) : ReachedBefore(x, c)}) = k

\* lines 587-599: the edge of the 1-cell c of M
EdgeOf(M, pwl, ids, c) ==
  LET source == M.rows[c[1]]
      column == M.cols[c[2]]
  IN  [source |-> Text(source),
       relation |-> "participates in",
       target |-> pwl.Pathway[column],
       id |-> Text(source) \o <<SPACE, "->", SPACE>> \o pwl.Pathway[column],
       source_id |-> Str(ids[source]),
       target_id |-> pwl.PathwayID[column],
       directed |-> TRUE]

\* geneid_lookup[source] of line 594 raises KeyError for the 1-cell c
EdgeRaises(M, ids, c) == M.rows[c[1]] \notin LookupKeys(ids)

\* the loops of lines 584-599 raise KeyError at some 1-cell of M
EdgesRaise(M, ids) == \E c \in OneCells(M) : EdgeRaises(M, ids, c)

\* the list edges after k appends
EdgesAfter(M, pwl, ids, k) ==
  [n \in 1..k |-> EdgeOf(M, pwl, ids, OneCellAt(M, n - 1))]

\* the number of appends made when the loops stop: all 1-cells, or those
\* reached before the first that raises
Appends(M, ids) ==
  Cardinality({c \in OneCells(M) :
                 \A x \in OneCells(M) :
                   (x = c \/ ReachedBefore(x, c)) => ~EdgeRaises(M, ids, x)})

\* lines 550 and 560: the loop variables gene and pathway stay bound to the
\* last key of geneid_lookup and of pathwayid_lookup['Pathway'].  The order
\* of the keys of geneid_lookup is that of lookup.get_lookups, which is not
\* known here: gene is any key.
NodesGlobals(ids, pwl) ==
  LET last == IF pwl.keys = <<>> THEN <<>>
              ELSE "pathway" :> pwl.keys[Len(pwl.keys)]
  IN  IF LookupKeys(ids) = {} THEN {last}
      ELSE {("gene" :> Text(g)) @@ last : g \in LookupKeys(ids)}

\* line 581: arr = binary_matrix.reset_index(drop=True).to_numpy(dtype=np.int_)
Arr(M) == [c \in Cells(M) |-> IF M.val[c] = One THEN 1 ELSE 0]

\* line 585: sources = [*binary_matrix.index[arr[:, i] == 1]] for the column
\* at position col
Sources(M, col) ==
  LET idx == Ascending({r \in 1..Len(M.rows) : M.val[<<r, col>>] = One})
  IN  [n \in 1..Len(idx) |-> Text(M.rows[idx[n]])]

\* lines 581-586: the globals the edge cell has bound besides edges when the
\* loops end or raise: arr, w and h; i and sources of the column the outer
\* loop was in last; source of the 1-cell the inner loop was at last
EdgeLoopGlobals(M, ids) ==
  LET k    == Appends(M, ids)
      at   == IF EdgesRaise(M, ids) THEN OneCellAt(M, k)
              ELSE IF k > 0 THEN OneCellAt(M, k - 1) ELSE <<0, 0>>
      col  == IF EdgesRaise(M, ids) THEN at[2] ELSE Len(M.cols)
      names == {"arr", "w", "h"}
                 \cup (IF col > 0 THEN {"i", "sources"} ELSE {})
                 \cup (IF at # <<0, 0>> THEN {"source"} ELSE {})
  IN  [x \in names |->
         CASE x = "arr"     -> Arr(M)
           [] x = "w"       -> Len(M.rows)
           [] x = "h"       -> Len(M.cols)
           [] x = "i"       -> col - 1
           [] x = "sources" -> Sources(M, col)
           [] x = "source"  -> Text(M.rows[at[1]])]

\* lines 608-614: the object json.dump writes
Serialization(n, e) == [Version |-> "1", nodes |-> n, edges |-> e]

\* line 608: `with open(...) as serialize` binds the file object
SerializeGlobal == "serialize" :> "_serialization_for_kg.json"

\* line 609: serial = json.dump(...) binds what json.dump returns, None
SerialGlobal == "serial" :> "None"

\* ================================== the cells of the two ETL notebooks
\* A cell statement is [line, op, arg, out]: the source line, the function
\* called, the global it reads and the global it assigns (or the file it
\* writes).
\* ABA.ipynb, lines 359-816: the statements that call uf, in cell order
AbaStatements ==
  << [line |-> 359, op |-> "save_data",           arg |-> "matrix", out |-> "_matrix_unfiltered"],
     [line |-> 382, op |-> "map_symbols",         arg |-> "matrix", out |-> "matrix"],
     [line |-> 399, op |-> "merge_row",           arg |-> "matrix", out |-> "matrix"],
     [line |-> 400, op |-> "merge_column",        arg |-> "matrix", out |-> "matrix"],
     [line |-> 417, op |-> "remove_impute",       arg |-> "matrix", out |-> "matrix"],
     [line |-> 443, op |-> "log2",                arg |-> "matrix", out |-> "matrix"],
     [line |-> 460, op |-> "quantile_normalize",  arg |-> "matrix", out |-> "matrix"],
     [line |-> 477, op |-> "zscore",              arg |-> "matrix", out |-> "matrix"],
     [line |-> 526, op |-> "save_data",           arg |-> "matrix", out |-> "_matrix_filtered"],
     [line |-> 550, op |-> "gene_list",           arg |-> "matrix", out |-> "gene_list"],
     [line |-> 569, op |-> "save_data",           arg |-> "gene_list", out |-> "_gene_list"],
     [line |-> 586, op |-> "attribute_list",      arg |-> "matrix", out |-> "attribute_list"],
     [line |-> 605, op |-> "save_data",           arg |-> "attribute_list", out |-> "_attribute_list"],
     [line |-> 622, op |-> "standardized_matrix", arg |-> "matrix", out |-> "standard_matrix"],
     [line |-> 632, op |-> "save_data",           arg |-> "standard_matrix", out |-> "_standard_matrix"],
     [line |-> 670, op |-> "ternary_matrix",      arg |-> "standard_matrix", out |-> "ternary_matrix"],
     [line |-> 680, op |-> "save_data",           arg |-> "ternary_matrix", out |-> "_ternary_matrix"],
     [line |-> 697, op |-> "save_setlib_gene",    arg |-> "ternary_matrix", out |-> "_gene_up_set"],
     [line |-> 706, op |-> "save_setlib_gene",    arg |-> "ternary_matrix", out |-> "_gene_down_set"],
     [line |-> 715, op |-> "save_setlib_attribute", arg |-> "ternary_matrix", out |-> "_attribute_up_set"],
     [line |-> 725, op |-> "save_setlib_attribute", arg |-> "ternary_matrix", out |-> "_attribute_down_set"],
     [line |-> 742, op |-> "similarity_matrix_T", arg |-> "standard_matrix", out |-> "attribute_similarity_matrix"],
     [line |-> 752, op |-> "save_data",           arg |-> "attribute_similarity_matrix", out |-> "_attribute_similarity_matrix"],
     [line |-> 770, op |-> "similarity_matrix",   arg |-> "standard_matrix", out |-> "gene_similarity_matrix"],
     [line |-> 780, op |-> "save_data",           arg |-> "gene_similarity_matrix", out |-> "_gene_similarity_matrix"],
     [line |-> 798, op |-> "edge_list",           arg |-> "standard_matrix", out |-> "edge_list"],
     [line |-> 799, op |-> "save_data",           arg |-> "edge_list", out |-> "_edge_list"],
     [line |-> 816, op |-> "archive",             arg |-> "matrix", out |-> "archive"] >>

\* the statements `cells` with the call of the given line replaced by op
WithOp(cells, line, op) ==
  [n \in 1..Len(cells) |->
     IF cells[n].line = line THEN [cells[n] EXCEPT !.op = op] ELSE cells[n]]

\* mutant: the z-score is taken before the quantile normalization
AbaCellsZscoreFirst ==
  WithOp(WithOp(AbaStatements, 460, "zscore"), 477, "quantile_normalize")

\* mutant: the filtered matrix is saved before the z-score instead of after
AbaCellsFilteredBeforeZscore ==
  [n \in 1..Len(AbaStatements) |->
     IF AbaStatements[n].line = 477 THEN AbaStatements[n + 1]
     ELSE IF AbaStatements[n].line = 526 THEN AbaStatements[n - 1]
     ELSE AbaStatements[n]]

\* the statements the ABA notebook runs
AbaCells == AbaStatements

\* Reactome.ipynb, lines 353-790: the statements that call uf and the cells
\* that make the knowledge-graph file, in cell order.  The cells of lines
\* 637-774 (statistics and plots of the gene-set library) write no file and
\* bind globals no statement of the table reads; one of them, source, is a
\* name the edge cell has bound before, and line 647 binds it anew:
\* source = ColumnDataSource(group), group being made at line 646 from
\* geneSetLibrary, the copy of df of line 257.
ReactomeCells ==
  << [line |-> 353, op |-> "binary_matrix",       arg |-> "df", out |-> "binary_matrix"],
     [line |-> 364, op |-> "save_data",           arg |-> "binary_matrix", out |-> "_binary_matrix"],
     [line |-> 381, op |-> "gene_list",           arg |-> "binary_matrix", out |-> "gene_list"],
     [line |-> 392, op |-> "save_data",           arg |-> "gene_list", out |-> "_gene_list"],
     [line |-> 409, op |-> "attribute_list",      arg |-> "binary_matrix", out |-> "attribute_list"],
     [line |-> 420, op |-> "save_data",           arg |-> "attribute_list", out |-> "_attribute_list"],
     [line |-> 437, op |-> "save_setlib_gene",    arg |-> "binary_matrix", out |-> "_gene_set"],
     [line |-> 446, op |-> "save_setlib_attribute", arg |-> "binary_matrix", out |-> "_attribute_set"],
     [line |-> 462, op |-> "similarity_matrix",   arg |-> "binary_matrix", out |-> "gene_similarity_matrix"],
     [line |-> 472, op |-> "save_data",           arg |-> "gene_similarity_matrix", out |-> "_gene_similarity_matrix"],
     [line |-> 490, op |-> "similarity_matrix_T", arg |-> "binary_matrix", out |-> "attribute_similarity_matrix"],
     [line |-> 500, op |-> "save_data",           arg |-> "attribute_similarity_matrix", out |-> "_attribute_similarity_matrix"],
     [line |-> 518, op |-> "edge_list",           arg |-> "binary_matrix", out |-> "edge_list"],
     [line |-> 519, op |-> "save_data",           arg |-> "edge_list", out |-> "_edge_list"],
     [line |-> 536, op |-> "pathwayid_lookup",    arg |-> "attribute_list", out |-> "pathwayid_lookup"],
     [line |-> 548, op |-> "nodes",               arg |-> "pathwayid_lookup", out |-> "nodes"],
     [line |-> 580, op |-> "edges",               arg |-> "binary_matrix", out |-> "edges"],
     [line |-> 608, op |-> "json_dump",           arg |-> "edges", out |-> "_serialization_for_kg"],
     [line |-> 647, op |-> "ColumnDataSource",    arg |-> "df", out |-> "source"],
     [line |-> 790, op |-> "archive",             arg |-> "binary_matrix", out |-> "archive"] >>

\* the statements of the running notebook
CellsOf(nb) == IF nb = "ABA" THEN AbaCells ELSE ReactomeCells

Tissues == {"amygdala", "thalamus"}

\* the matrices of at most MaxRows rows labelled from Symbols and at most
\* MaxCols columns labelled from Tissues, with cells from V
Matrices(V) ==
  UNION {{[rows |-> r, cols |-> c, val |-> v] :
            r \in [1..nr -> Symbols], c \in [1..nc -> Tissues],
            v \in [(1..nr) \X (1..nc) -> V]} :
         nr \in 0..MaxRows, nc \in 0..MaxCols}

\* the lookup tables in which the approved symbol TP53 stands for itself
ApprovedLookups == {L \in SymbolLookups : L["TP53"] = "TP53"}

\* line 647: source = ColumnDataSource(group) binds an object of bokeh, of
\* which nothing but its class is followed
BokehSource == "ColumnDataSource"

\* what the call op returns for the argument x; e holds the globals.  The
\* cells after the merge are followed at the level of the labels: the
\* values they compute are not computed here.
Result(op, x, e) ==
  CASE op = "map_symbols"         -> MapSymbols(x, e["symbol_lookup"].data)
    [] op = "merge_row"           -> Merge(x, "row")
    [] op = "merge_column"        -> Merge(x, "column")
    [] op = "remove_impute"       -> RemoveImpute(x)
    [] op = "binary_matrix"       -> BinaryMatrix(x)
    [] op = "gene_list"           -> Table(x.rows, <<"Gene ID">>)
    [] op = "attribute_list"      -> Table(x.cols, <<>>)
    [] op = "similarity_matrix"   -> Table(x.rows, x.rows)
    [] op = "similarity_matrix_T" -> Table(x.cols, x.cols)
    [] op = "edge_list"           -> Table(x.rows, x.cols)
    [] op = "save_setlib_gene"    -> Table(x.cols, <<>>)
    [] op = "save_setlib_attribute" -> Table(x.rows, <<>>)
    [] op = "pathwayid_lookup"    -> PathwayIdLookup(x.rows)
    [] op = "nodes"               -> Nodes(e["geneid_lookup"].data, x)
    [] op = "edges"               ->
         EdgesAfter(e["binary_matrix"].data, e["pathwayid_lookup"].data,
                    e["geneid_lookup"].data,
                    Appends(e["binary_matrix"].data, e["geneid_lookup"].data))
    [] op = "json_dump"           -> Serialization(e["nodes"].data, x)
    [] op = "ColumnDataSource"    -> BokehSource
    [] op = "standardized_matrix" -> StandardizedMatrix(x)
    [] op \in {"log2", "quantile_normalize", "zscore", "ternary_matrix"}
                                  -> RealValued(x)

\* the statements of the knowledge-graph cells: they call no function of uf
KgOps == {"pathwayid_lookup", "nodes", "edges", "json_dump"}

\* the statement op raises on the globals e for a reason the sources show:
\* the KeyError of line 594
MustRaise(op, e) ==
  op = "edges" /\ EdgesRaise(e["binary_matrix"].data, e["geneid_lookup"].data)

\* the calls that write a file into the output directory
SaveOps == {"save_data", "save_setlib_gene", "save_setlib_attribute", "json_dump"}

\* the globals when the first statement of the table is reached: ABA has
\* the concatenated matrix of lines 322-333 and the lookup of line 220,
\* Reactome has the frame df left by the cell of lines 298-304 and the
\* gene-ID lookup of line 167
InitNotebook ==
  /\ OvIdle
  /\ GmtIdle
  /\ KgIdle
  /\ RemapIdle
  /\ UfIdle
  /\ notebook \in {"ABA", "Reactome"}
  /\ cellNo = 1
  /\ IF notebook = "ABA"
     THEN \E M \in Matrices({Missing, One}), L \in ApprovedLookups :
            env = ("matrix" :> [data |-> M, prov |-> <<>>])
                    @@ ("symbol_lookup" :> [data |-> L, prov |-> <<>>])
     ELSE \E f \in Frames, ids \in GeneIdLookups :
            env = ("df" :> [data |-> DropDuplicates(f), prov |-> <<>>])
                    @@ ("geneid_lookup" :> [data |-> ids, prov |-> <<>>])
  /\ output = <<>>
  /\ raisedAt = 0

\* the statement that runs next
Statement == CellsOf(notebook)[cellNo]

Running == raisedAt = 0 /\ cellNo \in 1..Len(CellsOf(notebook))

\* the provenance of what the statement makes
ProvOf(st, e) == Append(e[st.arg].prov, st.op)

\* the globals a cell binds besides the target of its statement, for each
\* way the cell can go
Others(op, e) ==
  CASE op = "nodes"     -> NodesGlobals(e["geneid_lookup"].data, e["pathwayid_lookup"].data)
    [] op = "edges"     -> {EdgeLoopGlobals(e["binary_matrix"].data, e["geneid_lookup"].data)}
    [] op = "json_dump" -> {SerializeGlobal @@ SerialGlobal}
    [] OTHER            -> {<<>>}

\* the globals e with the names of g bound to the objects of g
WithGlobals(e, g, prov) ==
  [x \in DOMAIN e \cup DOMAIN g |->
     IF x \in DOMAIN g THEN [data |-> g[x], prov |-> prov] ELSE e[x]]

\* the file a save statement writes
FileOf(st, e) ==
  IF st.op = "save_data" THEN e[st.arg].data
  ELSE Result(st.op, e[st.arg].data, e)

\* a statement `out = uf.op(arg)`, or a knowledge-graph cell that binds
\* out: the global out is bound to the result, and the loop variables of
\* the cell stay bound
RunCompute ==
  /\ Running
  /\ Statement.op \notin SaveOps \cup {"archive"}
  /\ ~MustRaise(Statement.op, env)
  /\ \E g \in Others(Statement.op, env) :
       env' = WithGlobals(env,
                (Statement.out :> Result(Statement.op, env[Statement.arg].data, env)) @@ g,
                ProvOf(Statement, env))
  /\ cellNo' = cellNo + 1
  /\ UNCHANGED <<notebook, output, raisedAt, ovVars, gmtVars, remapVars, ufVars, kgVars>>

\* mutant: save_data and save_setlib write nothing
RunSaveNothing ==
  /\ Running
  /\ Statement.op \in SaveOps
  /\ cellNo' = cellNo + 1
  /\ UNCHANGED <<notebook, env, output, raisedAt, ovVars, gmtVars, remapVars, ufVars, kgVars>>

\* uf.save_data(arg, path, output_name + out, ...) writes the object arg
\* to a file of the output directory; uf.save_setlib writes the set
\* library made from arg; the cell of Reactome lines 608-614 writes nodes
\* and edges to output_name + '_serialization_for_kg.json' and binds
\* serialize and serial
RunSave ==
  /\ Running
  /\ Statement.op \in SaveOps
  /\ output' = (Statement.out :>
                  [data |-> FileOf(Statement, env),
                   prov |-> IF Statement.op = "save_data" THEN env[Statement.arg].prov
                            ELSE ProvOf(Statement, env),
                   written |-> "all"])
                 @@ output
  /\ \E g \in Others(Statement.op, env) :
       env' = WithGlobals(env, g, ProvOf(Statement, env))
  /\ cellNo' = cellNo + 1
  /\ UNCHANGED <<notebook, raisedAt, ovVars, gmtVars, remapVars, ufVars, kgVars>>

\* the file the archive statement writes: it packs the files of the output
\* directory
Archive == [data |-> DOMAIN output, prov |-> <<"archive">>, written |-> "all"]

\* uf.archive(path) (ABA line 816) and uf.archive(path, output_name + "_")
\* (Reactome line 790)
RunArchive ==
  /\ Running
  /\ Statement.op = "archive"
  /\ output' = ("archive" :> Archive) @@ output
  /\ cellNo' = cellNo + 1
  /\ UNCHANGED <<notebook, env, raisedAt, ovVars, gmtVars, remapVars, ufVars, kgVars>>

\* the call of a statement `out = uf.op(arg)`, or ColumnDataSource(group)
\* of line 647, raises: the assignment does not take place, and the
\* notebook stops there
RunRaises ==
  /\ Running
  /\ Statement.op \notin SaveOps \cup {"archive"} \cup KgOps
  /\ raisedAt' = Statement.line
  /\ UNCHANGED <<notebook, cellNo, env, output, ovVars, gmtVars, remapVars, ufVars, kgVars>>

\* how much of its file a statement that raises can have written: the code
\* of uf.save_data, uf.save_setlib and uf.archive is not known here, so the
\* file may be absent, begun or whole; the cell of lines 608-614 opens the
\* file for writing before json.dump runs, so the file is absent (open
\* raised) or begun (json.dump or the closing of the file raised)
LeftBehind(op) == IF op = "json_dump" THEN {"none", "part"} ELSE {"none", "part", "all"}

\* a statement that writes a file raises: the notebook stops there, with
\* what the statement had written of its own file; the cell of lines
\* 608-614 has bound serialize once the file is open, and serial as well
\* when json.dump has returned and the closing of the file raises
RunSaveRaises ==
  /\ Running
  /\ Statement.op \in SaveOps \cup {"archive"}
  /\ raisedAt' = Statement.line
  /\ \E left \in LeftBehind(Statement.op) :
       /\ output' =
            IF left = "none" THEN output
            ELSE (Statement.out :>
                    [(IF Statement.op = "archive" THEN Archive
                      ELSE [data |-> FileOf(Statement, env),
                            prov |-> IF Statement.op = "save_data" THEN env[Statement.arg].prov
                                     ELSE ProvOf(Statement, env),
                            written |-> "all"])
                     EXCEPT !.written = left]) @@ output
       /\ IF Statement.op = "json_dump" /\ left # "none"
          THEN \E g \in {SerializeGlobal, SerializeGlobal @@ SerialGlobal} :
                 env' = WithGlobals(env, g, ProvOf(Statement, env))
          ELSE env' = env
  /\ UNCHANGED <<notebook, cellNo, ovVars, gmtVars, remapVars, ufVars, kgVars>>

\* the edge loops of lines 580-599 raise KeyError: edges is left bound to
\* the edges appended before, arr, w, h, i, sources and source to what they
\* were bound to last, and the notebook stops there
RunEdgesRaise ==
  /\ Running
  /\ MustRaise(Statement.op, env)
  /\ env' = WithGlobals(env,
              (Statement.out :> Result(Statement.op, env[Statement.arg].data, env))
                @@ EdgeLoopGlobals(env["binary_matrix"].data, env["geneid_lookup"].data),
              ProvOf(Statement, env))
  /\ raisedAt' = Statement.line
  /\ UNCHANGED <<notebook, cellNo, output, ovVars, gmtVars, remapVars, ufVars, kgVars>>

NextNotebook ==
  \/ RunCompute
  \/ RunSave
  \/ RunArchive
  \/ RunRaises
  \/ RunSaveRaises
  \/ RunEdgesRaise

SpecNotebook == InitNotebook /\ [][NextNotebook]_vars

\* ===================================== the uf functions, call by call
\* ------------------------------------------------- uf.ternary_matrix
MinusOne == [num |-> -1, den |-> 1]

RatNeg(x) == [num |-> -x.num, den |-> x.den]

\* mutant: a value below the lower cut keeps its value
TernaryKeepLow(x, cut) ==
  IF RatLess(cut, x) THEN One
  ELSE IF RatLess(x, RatNeg(cut)) THEN x
  ELSE Zero

\* a value above the upper cut becomes +1, a value below the lower cut -1,
\* any other value 0; the cuts are cut and -cut
Ternary(x, cut) ==
  IF RatLess(cut, x) THEN One
  ELSE IF RatLess(x, RatNeg(cut)) THEN MinusOne
  ELSE Zero

\* uf.ternary_matrix(M)
TernaryMatrix(M, cut) ==
  [M EXCEPT !.val = [c \in Cells(M) |-> Ternary(M.val[c], cut)]]

\* the cuts tried
Cuts == {Zero, One}

\* ----------------------------------------------- uf.similarity_matrix
\* the product of rows i and k of M
Dot(M, i, k) ==
  LET w == [j \in 1..Len(M.cols) |-> M.val[<<i, j>>].num * M.val[<<k, j>>].num]
  IN  SumOver(1..Len(M.cols), w)

\* mutant: the product is divided by the squared norm of the first row only
CosineByFirstNorm(M, i, k) ==
  IF Dot(M, i, i) = 0 \/ Dot(M, k, k) = 0 THEN Missing
  ELSE [sign |-> IF Dot(M, i, k) < 0 THEN -1 ELSE 1,
        square |-> Rat(Dot(M, i, k) * Dot(M, i, k), Dot(M, i, i) * Dot(M, i, i))]

\* the cosine of rows i and k of an integer-valued M, held as its sign and
\* its square (the cosine is sign * sqrt(square)); missing when a row is zero
Cosine(M, i, k) ==
  IF Dot(M, i, i) = 0 \/ Dot(M, k, k) = 0 THEN Missing
  ELSE [sign |-> IF Dot(M, i, k) < 0 THEN -1 ELSE 1,
        square |-> Rat(Dot(M, i, k) * Dot(M, i, k), Dot(M, i, i) * Dot(M, k, k))]

\* the columns in which row i of M is not zero
Active(M, i) == {j \in 1..Len(M.cols) : M.val[<<i, j>>] # Zero}

\* the Jaccard index of rows i and k of M taken as sets of active columns;
\* missing when both are empty
JaccardRows(M, i, k) ==
  IF Active(M, i) \cup Active(M, k) = {} THEN Missing
  ELSE Rat(Cardinality(Active(M, i) \cap Active(M, k)),
           Cardinality(Active(M, i) \cup Active(M, k)))

\* uf.similarity_matrix(M, metric): the similarity of every pair of rows
SimilarityMatrix(M, metric) ==
  [rows |-> M.rows,
   cols |-> M.rows,
   val  |-> [c \in (1..Len(M.rows)) \X (1..Len(M.rows)) |->
               IF metric = "cosine" THEN Cosine(M, c[1], c[2])
               ELSE JaccardRows(M, c[1], c[2])]]

\* ------------------------------------- uf.gene_list, uf.attribute_list

\* mutant: the genes the table does not hold are left out of the list
GeneListKnownOnly(M, ids) ==
  LET known == Ascending({i \in 1..Len(M.rows) : ids[M.rows[i]] # NoId})
  IN  [n \in 1..Len(known) |->
         [gene |-> M.rows[known[n]], id |-> ids[M.rows[known[n]]]]]

\* uf.gene_list(M, geneid_lookup): one row per row of M, with the ID the
\* table gives for the gene, null when the table does not hold it
GeneList(M, ids) ==
  [n \in 1..Len(M.rows) |-> [gene |-> M.rows[n], id |-> ids[M.rows[n]]]]

\* uf.attribute_list(M): one row per column of M
AttributeList(M) ==
  [n \in 1..Len(M.cols) |->
     [attribute |-> M.cols[n],
      genes |-> Cardinality({i \in 1..Len(M.rows) : M.val[<<i, n>>] # Zero})]]

\* ---------------------------------------------------- uf.save_setlib
\* the value v counts for the direction
Matches(v, direction) ==
  IF direction = "up" THEN RatLess(Zero, v) ELSE RatLess(v, Zero)

\* the gene set library of M: for every column the set of the row labels
\* whose cell in the column matches the direction
GeneSetLib(M, direction) ==
  [n \in 1..Len(M.cols) |->
     [term |-> M.cols[n],
      set  |-> {M.rows[i] : i \in {k \in 1..Len(M.rows) : Matches(M.val[<<k, n>>], direction)}}]]

\* mutant: the entries whose set is empty are not written
SetLibNoEmpty(M, lib, direction) ==
  LET all == GeneSetLib(IF lib = "gene" THEN M ELSE Transpose(M), direction)
      nonempty(e) == e.set # {}
  IN  SelectSeq(all, nonempty)

\* uf.save_setlib(M, lib, direction, ...): the gene set library has one
\* gene set per attribute, the attribute set library one attribute set per
\* gene; an empty set is an entry like any other
SetLib(M, lib, direction) ==
  GeneSetLib(IF lib = "gene" THEN M ELSE Transpose(M), direction)

\* ------------------------------------------------------ the calls
\* the matrices the calls are tried on
IntegerMatrices == Matrices({RatNeg(Rat(2, 1)), Zero, One})

UniqueLabels(M) ==
  /\ \A i, j \in 1..Len(M.rows) : M.rows[i] = M.rows[j] => i = j
  /\ \A i, j \in 1..Len(M.cols) : M.cols[i] = M.cols[j] => i = j

InitUf ==
  /\ OvIdle
  /\ GmtIdle
  /\ KgIdle
  /\ RemapIdle
  /\ NotebookIdle
  /\ ufInput \in IntegerMatrices
  /\ ufArg = ufInput
  /\ ufRes = ufInput
  /\ ufCalls = <<>>

\* the fields of a call: the function, how it is called and the table passed
Call(fn, how, table) == [fn |-> fn, how |-> how, table |-> table]

\* the functions that return a matrix the notebooks pass on
MatrixFns == {"map_symbols", "merge"}

\* ufRes is a matrix a further call can take
CanCall ==
  /\ Len(ufCalls) < MaxCalls
  /\ \A n \in 1..Len(ufCalls) : ufCalls[n].fn \in MatrixFns

\* ufRes is a matrix as the pipeline has it after the merges
CanDerive == CanCall /\ UniqueLabels(ufRes)

\* matrix = uf.map_symbols(matrix, symbol_lookup)
UfMapSymbols ==
  /\ CanCall
  /\ ufCalls = <<>>
  /\ \E L \in ApprovedLookups :
       /\ ufRes' = MapSymbols(ufRes, L)
       /\ ufCalls' = Append(ufCalls, Call("map_symbols", "", L))
  /\ ufArg' = ufRes
  /\ UNCHANGED <<ufInput, ovVars, gmtVars, remapVars, nbVars, kgVars>>

\* matrix = uf.merge(matrix, axis)
UfMerge ==
  /\ CanCall
  /\ \E axis \in {"row", "column"} :
       /\ ufRes' = Merge(ufRes, axis)
       /\ ufCalls' = Append(ufCalls, Call("merge", axis, <<>>))
  /\ ufArg' = ufRes
  /\ UNCHANGED <<ufInput, ovVars, gmtVars, remapVars, nbVars, kgVars>>

\* ternary_matrix = uf.ternary_matrix(standard_matrix)
UfTernaryMatrix ==
  /\ CanDerive
  /\ \E cut \in Cuts :
       /\ ufRes' = TernaryMatrix(ufRes, cut)
       /\ ufCalls' = Append(ufCalls, Call("ternary_matrix", "", cut))
  /\ ufArg' = ufRes
  /\ UNCHANGED <<ufInput, ovVars, gmtVars, remapVars, nbVars, kgVars>>

\* uf.similarity_matrix(M, metric) and uf.similarity_matrix(M.T, metric)
UfSimilarityMatrix ==
  /\ CanDerive
  /\ \E metric \in {"cosine", "jaccard"}, M \in {ufRes, Transpose(ufRes)} :
       /\ ufArg' = M
       /\ ufRes' = SimilarityMatrix(M, metric)
       /\ ufCalls' = Append(ufCalls, Call("similarity_matrix", metric, <<>>))
  /\ UNCHANGED <<ufInput, ovVars, gmtVars, remapVars, nbVars, kgVars>>

\* uf.save_setlib(M, lib, direction, path, name): ufRes is the library saved
UfSaveSetlib ==
  /\ CanDerive
  /\ \E lib \in {"gene", "attribute"}, direction \in {"up", "down"} :
       /\ ufRes' = SetLib(ufRes, lib, direction)
       /\ ufCalls' = Append(ufCalls, Call("save_setlib", lib, direction))
  /\ ufArg' = ufRes
  /\ UNCHANGED <<ufInput, ovVars, gmtVars, remapVars, nbVars, kgVars>>

\* gene_list = uf.gene_list(M, geneid_lookup)
UfGeneList ==
  /\ CanDerive
  /\ \E G \in GeneIdLookups :
       /\ ufRes' = GeneList(ufRes, G)
       /\ ufCalls' = Append(ufCalls, Call("gene_list", "", G))
  /\ ufArg' = ufRes
  /\ UNCHANGED <<ufInput, ovVars, gmtVars, remapVars, nbVars, kgVars>>

\* attribute_list = uf.attribute_list(M)
UfAttributeList ==
  /\ CanDerive
  /\ ufRes' = AttributeList(ufRes)
  /\ ufCalls' = Append(ufCalls, Call("attribute_list", "", <<>>))
  /\ ufArg' = ufRes
  /\ UNCHANGED <<ufInput, ovVars, gmtVars, remapVars, nbVars, kgVars>>

NextUf ==
  \/ UfMapSymbols
  \/ UfMerge
  \/ UfTernaryMatrix
  \/ UfSimilarityMatrix
  \/ UfSaveSetlib
  \/ UfGeneList
  \/ UfAttributeList

SpecUf == InitUf /\ [][NextUf]_vars

\* ============ Reactome.ipynb, knowledge-graph cells run edge by edge
\* the column labels tried: those of the frames, a label whose name holds
\* a double space and a label whose name spells a gene symbol
KgLabels ==
  Pathways \cup
    { <<"Cell", SPACE, SPACE, "Cycle", SPACE, "R-3">>,
      <<"TP53", SPACE, "R-4">> }

\* the sequences of 1..n distinct elements of S
Distinct(S, n) ==
  UNION {{q \in [1..k -> S] : \A i, j \in 1..k : q[i] = q[j] => i = j} : k \in 1..n}

\* the matrices uf.binary_matrix returns for a frame with rows: the genes
\* and the pathways of the frame label the rows and the columns, each once,
\* and every row and every column holds a 1
BinaryMatrices ==
  UNION {{[rows |-> r, cols |-> c, val |-> v] :
            v \in {w \in [(1..Len(r)) \X (1..Len(c)) -> {Zero, One}] :
                     /\ \A i \in 1..Len(r) : \E j \in 1..Len(c) : w[<<i, j>>] = One
                     /\ \A j \in 1..Len(c) : \E i \in 1..Len(r) : w[<<i, j>>] = One}} :
         r \in Distinct(Symbols, MaxRows), c \in Distinct(KgLabels, MaxCols)}

\* the state before line 536: the binary matrix of line 353 and the gene-ID
\* lookup of line 167
InitKg ==
  /\ OvIdle
  /\ GmtIdle
  /\ RemapIdle
  /\ NotebookIdle
  /\ UfIdle
  /\ binary_matrix \in BinaryMatrices
  /\ geneid_lookup \in GeneIdLookups
  /\ pathwayid_lookup = <<>>
  /\ nodes = <<>>
  /\ edges = <<>>
  /\ kgPos = 0
  /\ kgPc = "lookup"

\* lines 536-539, on the attribute list of line 409
KgPathwayLookup ==
  /\ kgPc = "lookup"
  /\ LET attribute_list == AttributeList(binary_matrix)
         index == [n \in 1..Len(attribute_list) |-> attribute_list[n].attribute]
     IN  pathwayid_lookup' = PathwayIdLookup(index)
  /\ kgPc' = "nodes"
  /\ UNCHANGED <<binary_matrix, geneid_lookup, nodes, edges, kgPos, ovVars, gmtVars, remapVars, nbVars, ufVars>>

\* lines 548-571
KgNodes ==
  /\ kgPc = "nodes"
  /\ nodes' = Nodes(geneid_lookup, pathwayid_lookup)
  /\ kgPc' = "edges"
  /\ UNCHANGED <<binary_matrix, geneid_lookup, pathwayid_lookup, edges, kgPos, ovVars, gmtVars, remapVars, nbVars, ufVars>>

\* one edges.append of lines 587-599
KgEdge ==
  /\ kgPc = "edges"
  /\ kgPos < Cardinality(OneCells(binary_matrix))
  /\ ~EdgeRaises(binary_matrix, geneid_lookup, OneCellAt(binary_matrix, kgPos))
  /\ edges' = Append(edges, EdgeOf(binary_matrix, pathwayid_lookup, geneid_lookup,
                                   OneCellAt(binary_matrix, kgPos)))
  /\ kgPos' = kgPos + 1
  /\ UNCHANGED <<binary_matrix, geneid_lookup, pathwayid_lookup, nodes, kgPc, ovVars, gmtVars, remapVars, nbVars, ufVars>>

\* the dict literal of lines 588-598 raises KeyError: nothing is appended,
\* the cell stops and no later cell runs
KgEdgeRaises ==
  /\ kgPc = "edges"
  /\ kgPos < Cardinality(OneCells(binary_matrix))
  /\ EdgeRaises(binary_matrix, geneid_lookup, OneCellAt(binary_matrix, kgPos))
  /\ kgPc' = "raised"
  /\ UNCHANGED <<binary_matrix, geneid_lookup, pathwayid_lookup, nodes, edges, kgPos, ovVars, gmtVars, remapVars, nbVars, ufVars>>

\* the loops of lines 584-599 are exhausted
KgEdgesDone ==
  /\ kgPc = "edges"
  /\ kgPos = Cardinality(OneCells(binary_matrix))
  /\ kgPc' = "done"
  /\ UNCHANGED <<binary_matrix, geneid_lookup, pathwayid_lookup, nodes, edges, kgPos, ovVars, gmtVars, remapVars, nbVars, ufVars>>

NextKg ==
  \/ KgPathwayLookup
  \/ KgNodes
  \/ KgEdge
  \/ KgEdgeRaises
  \/ KgEdgesDone

SpecKg == InitKg /\ [][NextKg]_vars

\* ------------------------- lines 298-304 with an unconstrained map_symbols
\* The loop of the Reactome notebook with uf.map_symbols left open: a call
\* returns any frame, with fewer, as many or more rows than it was given.
\* The lookup table is passed to the call and read by nothing else.
InitRemapAny ==
  /\ OvIdle
  /\ GmtIdle
  /\ KgIdle
  /\ NotebookIdle
  /\ UfIdle
  /\ df \in Frames
  /\ symbol_lookup = [s \in Symbols |-> s]
  /\ dupes = 0
  /\ count = 0
  /\ calls = 0
  /\ before = 0
  /\ remapPc = "first"

\* lines 298-300: dupes, count and the first call
RemapFirstAny ==
  /\ remapPc = "first"
  /\ dupes' = Len(df)
  /\ count' = 0
  /\ before' = Len(df)
  /\ df' \in Frames
  /\ calls' = calls + 1
  /\ remapPc' = "test"
  /\ UNCHANGED <<symbol_lookup, ovVars, gmtVars, nbVars, ufVars, kgVars>>

\* mutant: count is the number of rows the call of this pass removed
RemapBodyAnyCountsPass ==
  /\ remapPc = "test"
  /\ RemapCondition
  /\ before' = Len(df)
  /\ df' \in Frames
  /\ count' = Len(df) - Len(df')
  /\ calls' = calls + 1
  /\ UNCHANGED <<symbol_lookup, dupes, remapPc, ovVars, gmtVars, nbVars, ufVars, kgVars>>

\* lines 303-304: one pass of the loop body
RemapBodyAny ==
  /\ remapPc = "test"
  /\ RemapCondition
  /\ before' = Len(df)
  /\ df' \in Frames
  /\ count' = dupes - Len(df')
  /\ calls' = calls + 1
  /\ UNCHANGED <<symbol_lookup, dupes, remapPc, ovVars, gmtVars, nbVars, ufVars, kgVars>>

NextRemapAny ==
  \/ RemapFirstAny
  \/ RemapBodyAny
  \/ RemapExit

SpecRemapAny == InitRemapAny /\ [][NextRemapAny]_vars

\* ======================================================== claims C1 - C10
\* the pairs whose loop body has completed
Processed == DOMAIN intersect

\* C1: for every pair the loop has processed, the stored Jaccard value is
\* |a \cap b| / |a \cup b|.
C1_JaccardIsIntersectionOverUnion ==
  \A p \in Processed :
    LET a == ds1[p[1]]
        b == ds2[p[2]]
    IN  jaccard[p] = Rat(Cardinality(a \cap b), Cardinality(a \cup b))

\* C2: identical non-empty gene sets have Jaccard index 1, and non-empty gene
\* sets that share no gene have Jaccard index 0.
C2_IdenticalOneDisjointZero ==
  \A p \in Processed :
    LET a == ds1[p[1]]
        b == ds2[p[2]]
    IN  /\ (a = b /\ a # {}) => jaccard[p] = One
        /\ (a # {} /\ b # {} /\ a \cap b = {}) => jaccard[p] = Zero

\* C3: for non-empty gene sets a and b the stored Jaccard value lies in
\* [0, 1].
C3_JaccardBounds ==
  \A p \in Processed :
    (ds1[p[1]] # {} /\ ds2[p[2]] # {}) =>
      RatLeq(Zero, jaccard[p]) /\ RatLeq(jaccard[p], One)

C3_Witness ==
  \E p \in Processed :
    /\ ds1[p[1]] # {}
    /\ ds2[p[2]] # {}
    /\ RatLess(Zero, jaccard[p])
    /\ \E r \in Processed : jaccard[r] = Zero /\ ds2[r[2]] # {}

\* C4: the p-value the loop stores for (a, b) is the p-value the loop body
\* computes for (b, a) when the libraries are swapped (same universe; the
\* swapped run stores a value only when b is non-empty).
C4_FisherSymmetric ==
  \A p \in Processed :
    LET iset == ds2[p[2]]
        jset == ds1[p[1]]
        a == CellA(iset, jset)
        b == CellB(iset, jset)
        c == CellC(iset, jset)
        d == CellD(genes, a, b, c)
    IN  ~JaccardRaises(a, b, c) => FisherTwoTail(a, b, c, d) = {fisherp[p]}

\* C5: a pair with a zero Jaccard denominator does not stop the loop: it is
\* recorded with Jaccard 0.
C5_ZeroDenominatorRecordsZero ==
  /\ err # "ZeroDivisionError"
  /\ \A p \in Processed :
       ds1[p[1]] \cup ds2[p[2]] = {} => jaccard[p] = Zero

\* C6: when either library is empty the run does not fail, and a finished
\* run has empty jtop, ftop and top tables.
C6_EmptyLibraryCompletes ==
  (Len(ds1) = 0 \/ Len(ds2) = 0) =>
    /\ pc # "failed"
    /\ pc = "done" => (jtop = <<>> /\ ftop = <<>> /\ top = <<>>)

\* a tab stands between two characters that are not whitespace: the stripped
\* line has at least two tab-delimited fields
InsideTab(line) ==
  \E m, n, k \in 1..Len(line) :
    /\ m < n
    /\ n < k
    /\ line[m] \notin Whitespace
    /\ line[n] = TAB
    /\ line[k] \notin Whitespace

\* C7 (as amended): load_gmt stops at the first line that, stripped of
\* leading and trailing whitespace, has fewer than two tab-delimited fields:
\* every line before it was processed, no line after it is, the ValueError
\* reports the number of fields found and not the line, and a library is
\* returned only for a file without such a line.
C7_FailFast ==
  /\ gmtPos <= Len(file)
  /\ \A n \in 1..gmtPos : InsideTab(file[n])
  /\ gmtPc = "returned" => gmtPos = Len(file)
  /\ gmtPc = "raised" =>
       /\ gmtPos < Len(file)
       /\ ~InsideTab(file[gmtPos + 1])
       /\ gmtErr = [type |-> "ValueError", expected |-> 2, got |-> 1]
       /\ Len(gmt) <= gmtPos

C7_Witness ==
  /\ gmtPc = "raised"
  /\ gmtPos = 1
  /\ Len(gmt) = 1
  /\ \E n \in 1..Len(file[2]) : file[2][n] = TAB
  /\ \E n \in 1..Len(file[2]) : file[2][n] = "a"

\* C7 (as stated): the line the error is raised on is the first line with
\* fewer than two tab-delimited fields, and the error names that line.
C7_ErrorNamesLine ==
  gmtPc = "raised" =>
    /\ \A n \in 1..Len(file[gmtPos + 1]) : file[gmtPos + 1][n] # TAB
    /\ "line" \in DOMAIN gmtErr
    /\ gmtErr.line \in {gmtPos + 1, file[gmtPos + 1]}

\* ftop and jtop have been computed
FtopComputed == pc \in {"top", "done"} \/ err = "ValueError"

\* top has been computed
TopComputed == pc = "done" \/ err = "ValueError"

\* C8: ftop has one row per pair, each with the pair's p-value and
\* q = p * N / rank(p), N the number of pairs and rank(p) the ascending rank
\* of p (tied values share the average of their positions), and its rows are
\* in non-decreasing q order.
C8_QValues ==
  FtopComputed =>
    /\ Len(ftop) = NPairs
    /\ \A p \in Pairs : \E n \in 1..Len(ftop) : <<ftop[n].i, ftop[n].j>> = p
    /\ \A n \in 1..Len(ftop) :
         LET r == ftop[n]
             less == Cardinality({m \in 1..Len(ftop) : RatLess(ftop[m].p, r.p)})
             same == Cardinality({m \in 1..Len(ftop) : ftop[m].p = r.p})
         IN  /\ r.p = fisherp[<<r.i, r.j>>]
             /\ r.q.num * r.p.den * (2 * less + same + 1)
                  = r.p.num * NPairs * 2 * r.q.den
    /\ \A n \in 1..(Len(ftop) - 1) : RatLeq(ftop[n].q, ftop[n + 1].q)

C8_Witness ==
  /\ pc = "done"
  /\ Len(ftop) = 4
  /\ ftop[1].p = ftop[2].p
  /\ RatLess(ftop[2].p, ftop[4].p)
  /\ RatLess(ftop[1].q, ftop[4].q)

\* the q-value ftop holds for the pair p
QOf(p) == (CHOOSE r \in {ftop[n] : n \in 1..Len(ftop)} : <<r.i, r.j>> = p).q

\* the pair p comes strictly before the pair r in the order 'Jaccard
\* descending, ties broken by q ascending'
Precedes(p, r) ==
  \/ RatLess(jaccard[r], jaccard[p])
  \/ jaccard[r] = jaccard[p] /\ RatLess(QOf(p), QOf(r))

\* the pairs of the rows of top
TopPairs == {<<top[n].i, top[n].j>> : n \in 1..Len(top)}

\* C9: top holds min(TopK, |A| * |B|) distinct pairs, consecutive rows
\* respect the order 'Jaccard descending, ties broken by q ascending', and no
\* pair left out precedes a pair in the table.
C9_TopIsHeadOfOrder ==
  TopComputed =>
    /\ Len(top) = Min(TopK, NPairs)
    /\ Cardinality(TopPairs) = Len(top)
    /\ TopPairs \subseteq Pairs
    /\ \A n \in 1..(Len(top) - 1) :
         ~Precedes(<<top[n + 1].i, top[n + 1].j>>, <<top[n].i, top[n].j>>)
    /\ \A p \in Pairs \ TopPairs : \A r \in TopPairs : ~Precedes(p, r)

C9_Witness ==
  /\ pc = "done"
  /\ NPairs = 4
  /\ Len(top) = 3
  /\ RatLess(top[3].Jaccard, top[2].Jaccard)
  /\ top[1].Jaccard = top[2].Jaccard
  /\ RatLess(top[1].q, top[2].q)

\* C10: the intersect annotation of a row of top lists exactly the genes of
\* a \cap b, each once, and the row's Jaccard, p and q are the values
\* computed for that pair.
C10_RowsBelongToPair ==
  TopComputed =>
    \A n \in 1..Len(top) :
      LET r == top[n]
          p == <<r.i, r.j>>
      IN  /\ {r.intersect[m] : m \in 1..Len(r.intersect)} = ds1[r.i] \cap ds2[r.j]
          /\ Len(r.intersect) = Cardinality(ds1[r.i] \cap ds2[r.j])
          /\ r.Jaccard = jaccard[p]
          /\ r.p = fisherp[p]
          /\ r.q = QOf(p)

C10_Witness ==
  /\ pc = "done"
  /\ \E n \in 1..Len(top) : Len(top[n].intersect) = 2
  /\ \E m, n \in 1..Len(top) :
       /\ top[m].Jaccard # top[n].Jaccard
       /\ top[m].p # top[n].p
       /\ top[m].q # top[n].q

\* ======================================================= claims C11 - C20
\* C11: when the loop of lines 302-304 has been left, the latest call of
\* map_symbols left the number of rows unchanged: df has as many rows as it
\* had when that call was made
C11_LastCallLeftRowCount == remapPc = "done" => Len(df) = before

\* the normalization stages in the order the pipeline is to apply them
Chain ==
  <<"map_symbols", "merge_row", "merge_column", "remove_impute", "log2",
    "quantile_normalize", "zscore">>

\* the objects the derivations make, in the order they are to be made
Derivations ==
  << {"gene_list"}, {"attribute_list"}, {"standard_matrix"}, {"ternary_matrix"},
     {"_gene_up_set", "_gene_down_set", "_attribute_up_set", "_attribute_down_set"},
     {"attribute_similarity_matrix", "gene_similarity_matrix"}, {"edge_list"} >>

IsPrefix(s, t) == Len(s) <= Len(t) /\ s = SubSeq(t, 1, Len(s))

\* the globals and files that exist
Made == DOMAIN env \cup DOMAIN output

\* the global or file x
Object(x) == IF x \in DOMAIN env THEN env[x] ELSE output[x]

\* the stages applied to the matrix so far are the first stages of Chain, in
\* that order; an object of a derivation exists only when the whole Chain
\* has been applied, is derived from the matrix the Chain produced, and the
\* objects of all earlier derivations exist
StagesInOrder ==
  notebook = "ABA" =>
    /\ IsPrefix(env["matrix"].prov, Chain)
    /\ \A k \in 1..Len(Derivations) : \A x \in Derivations[k] \cap Made :
         /\ env["matrix"].prov = Chain
         /\ IsPrefix(Chain, Object(x).prov)
         /\ \A j \in 1..(k - 1) : Derivations[j] \subseteq Made

\* C12: the ABA stages run in the fixed order symbol mapping, row merge,
\* column merge, missing-filter and imputation, log2, quantile normalization,
\* row z-score, and only then the derivations in their order; a statement
\* starts only when the one before it has completed and a stage works on the
\* matrix the stage before it returned, so the z-score is always taken of
\* the quantile-normalized matrix
C12_StagesInOrder ==
  [][(raisedAt' = 0 => cellNo' = cellNo + 1) /\ StagesInOrder']_vars

\* a full ABA run on a matrix that keeps rows and columns
C12_Witness ==
  /\ notebook = "ABA"
  /\ raisedAt = 0
  /\ cellNo = Len(AbaCells) + 1
  /\ "_edge_list" \in DOMAIN output
  /\ Len(env["matrix"].data.rows) = 2
  /\ Len(env["matrix"].data.cols) = 2
  /\ env["ternary_matrix"].prov = Chain \o <<"standardized_matrix", "ternary_matrix">>

\* the files the save statements before position k write
FilesBefore(k) ==
  {CellsOf(notebook)[n].out :
     n \in {m \in 1..(k - 1) : CellsOf(notebook)[m].op \in SaveOps}}

BoundByFailing(op) ==
  CASE op = "edges"     -> {"edges", "arr", "w", "h", "i", "sources", "source"}
    [] op = "json_dump" -> {"serialize", "serial"}
    [] OTHER            -> {}

CellAt(line) == CHOOSE n \in 1..Len(AbaCells) : AbaCells[n].line = line

NoDuplicates(s) == \A i, j \in 1..Len(s) : s[i] = s[j] => i = j

LastCall == ufCalls[Len(ufCalls)]

\* the labels of M on the axis
LabelsOn(M, axis) == IF axis = "row" THEN M.rows ELSE M.cols

\* C14: uf.merge is idempotent on either axis, merge(merge(M, axis), axis) =
\* merge(M, axis), and returns a matrix without repeated labels on the axis
\* as it is
C14_MergeIdempotent ==
  /\ (/\ Len(ufCalls) = 2
      /\ ufCalls[1].fn = "merge" /\ ufCalls[2].fn = "merge"
      /\ ufCalls[1].how = ufCalls[2].how) => ufRes = ufArg
  /\ (/\ Len(ufCalls) >= 1
      /\ LastCall.fn = "merge"
      /\ NoDuplicates(LabelsOn(ufArg, LastCall.how))) => ufRes = ufArg

\* a matrix was merged twice on the columns and the first merge had two
\* columns of one label, with different values, to merge
C14_Witness ==
  /\ Len(ufCalls) = 2
  /\ ufCalls[1].fn = "merge" /\ ufCalls[1].how = "column"
  /\ ufCalls[2].fn = "merge" /\ ufCalls[2].how = "column"
  /\ Len(ufInput.rows) = 2 /\ Len(ufInput.cols) = 2
  /\ ufInput.cols[1] = ufInput.cols[2]
  /\ ufInput.val[<<1, 1>>] # ufInput.val[<<1, 2>>]
  /\ Len(ufRes.cols) = 1

\* the rows of the matrix M whose label the table L gives the symbol s
MappedTo(M, L, s) == {i \in 1..Len(M.rows) : L[M.rows[i]] = s}

\* the mean of column j of the rows I of the integer-valued matrix M
ColumnMean(M, I, j) ==
  Rat(SumOver(I, [i \in I |-> M.val[<<i, j>>].num]), Cardinality(I))

\* C16: after map_symbols and the row merge, every symbol that the table
\* gives for some row label has exactly one row, holding column by column
\* the mean of all the rows whose label was mapped to it; the rows whose
\* label the table does not hold are in no row of the result
C16_OneRowPerSymbolWithMean ==
  (/\ Len(ufCalls) = 2
   /\ ufCalls[1].fn = "map_symbols"
   /\ ufCalls[2].fn = "merge" /\ ufCalls[2].how = "row") =>
    LET L == ufCalls[1].table
        symbols == {L[ufInput.rows[i]] : i \in 1..Len(ufInput.rows)} \ {NoSymbol}
    IN  /\ Len(ufArg.rows) = Cardinality({i \in 1..Len(ufInput.rows) : L[ufInput.rows[i]] # NoSymbol})
        /\ Len(ufRes.rows) = Cardinality(symbols)
        /\ ufRes.cols = ufInput.cols
        /\ \A s \in symbols :
             \E i \in 1..Len(ufRes.rows) :
               /\ ufRes.rows[i] = s
               /\ \A k \in 1..Len(ufRes.rows) : ufRes.rows[k] = s => k = i
               /\ \A j \in 1..Len(ufRes.cols) :
                    ufRes.val[<<i, j>>] = ColumnMean(ufInput, MappedTo(ufInput, L, s), j)

\* the rows TP53 and p53, with different values, were both mapped to TP53
\* and merged into one row
C16_Witness ==
  /\ Len(ufCalls) = 2
  /\ ufCalls[1].fn = "map_symbols"
  /\ ufCalls[2].fn = "merge" /\ ufCalls[2].how = "row"
  /\ ufInput.rows = <<"p53", "TP53">>
  /\ ufCalls[1].table["p53"] = "TP53"
  /\ Len(ufInput.cols) = 2
  /\ ufInput.val[<<1, 1>>] = One /\ ufInput.val[<<2, 1>>] = Zero
  /\ ufRes.rows = <<"TP53">>
  /\ ufRes.val[<<1, 1>>] = Rat(1, 2)

\* C17: every cell of the matrix uf.ternary_matrix returns is -1, 0 or +1
C17_TernaryCells ==
  (Len(ufCalls) >= 1 /\ LastCall.fn = "ternary_matrix") =>
    \A c \in Cells(ufRes) : ufRes.val[c] \in {MinusOne, Zero, One}

\* a ternary matrix that holds -1, 0 and +1, made from a matrix with a
\* value below -1
C17_Witness ==
  /\ Len(ufCalls) >= 1
  /\ LastCall.fn = "ternary_matrix"
  /\ {ufRes.val[c] : c \in Cells(ufRes)} = {MinusOne, Zero, One}
  /\ \E c \in Cells(ufArg) : RatLess(ufArg.val[c], MinusOne)

\* C18: the matrix uf.similarity_matrix returns, for the cosine and for the
\* Jaccard metric, of a matrix or of its transpose, has the row labels of
\* its argument, in their order, on its rows and on its columns, and is
\* symmetric
C18_SimilaritySquareSymmetric ==
  (Len(ufCalls) >= 1 /\ LastCall.fn = "similarity_matrix") =>
    /\ ufRes.rows = ufArg.rows
    /\ ufRes.cols = ufArg.rows
    /\ \A i, k \in 1..Len(ufArg.rows) : ufRes.val[<<i, k>>] = ufRes.val[<<k, i>>]

\* the cosine similarity of the two columns of a matrix whose columns have
\* different norms and are neither orthogonal nor parallel
C18_Witness ==
  /\ Len(ufCalls) >= 1
  /\ LastCall.fn = "similarity_matrix"
  /\ LastCall.how = "cosine"
  /\ ufRes.rows = <<"amygdala", "thalamus">>
  /\ ufRes.val[<<1, 2>>] # Missing
  /\ ufRes.val[<<1, 2>>].square = Rat(1, 2)
  /\ Dot(ufArg, 1, 1) # Dot(ufArg, 2, 2)

\* the set the entry of label n of the library is to hold: the labels of
\* the other axis whose cell is above 0 for 'up', below 0 for 'down'
ExpectedSet(M, lib, direction, n) ==
  IF lib = "gene"
  THEN {M.rows[i] : i \in {k \in 1..Len(M.rows) :
          IF direction = "up" THEN M.val[<<k, n>>].num > 0 ELSE M.val[<<k, n>>].num < 0}}
  ELSE {M.cols[j] : j \in {k \in 1..Len(M.cols) :
          IF direction = "up" THEN M.val[<<n, k>>].num > 0 ELSE M.val[<<n, k>>].num < 0}}

\* C19: the set library uf.save_setlib writes has exactly one entry per
\* column (gene set library) or per row (attribute set library) of the
\* matrix, in their order, the entries with an empty set included, so that
\* its entries are those of the rows of the attribute list or the gene list
\* of the same matrix
C19_OneEntryPerLabel ==
  (Len(ufCalls) >= 1 /\ LastCall.fn = "save_setlib") =>
    LET lib    == LastCall.how
        labels == IF lib = "gene" THEN ufArg.cols ELSE ufArg.rows
    IN  /\ Len(ufRes) = Len(labels)
        /\ \A n \in 1..Len(labels) :
             /\ ufRes[n].term = labels[n]
             /\ ufRes[n].set = ExpectedSet(ufArg, lib, LastCall.table, n)
        /\ lib = "gene" =>
             /\ Len(ufRes) = Len(AttributeList(ufArg))
             /\ \A n \in 1..Len(ufRes) : ufRes[n].term = AttributeList(ufArg)[n].attribute
        /\ lib = "attribute" =>
             \A G \in GeneIdLookups :
               /\ Len(ufRes) = Len(GeneList(ufArg, G))
               /\ \A n \in 1..Len(ufRes) : ufRes[n].term = GeneList(ufArg, G)[n].gene

\* a 'down' gene set library with an empty and a non-empty gene set
C19_Witness ==
  /\ Len(ufCalls) >= 1
  /\ LastCall.fn = "save_setlib"
  /\ LastCall.how = "gene"
  /\ LastCall.table = "down"
  /\ Len(ufRes) = 2
  /\ ufRes[1].set = {}
  /\ ufRes[2].set # {}

\* C20: the gene list has exactly one row per row of the matrix, in their
\* order; a gene the gene-ID table does not hold keeps its row, with the
\* null ID
C20_OneRowPerGene ==
  (Len(ufCalls) >= 1 /\ LastCall.fn = "gene_list") =>
    /\ Len(ufRes) = Len(ufArg.rows)
    /\ \A n \in 1..Len(ufArg.rows) :
         /\ ufRes[n].gene = ufArg.rows[n]
         /\ ufRes[n].id = LastCall.table[ufArg.rows[n]]

\* a gene list with a gene of known ID and a gene the table does not hold
C20_Witness ==
  /\ Len(ufCalls) >= 1
  /\ LastCall.fn = "gene_list"
  /\ Len(ufRes) = 2
  /\ ufRes[1].id = NoId
  /\ ufRes[2].id \in GeneIds
  /\ LastCall.table[ufRes[1].gene] = NoId

\* ======================================================= claims C21 - C27
\* C21: when the two loops have been run for every pair, by workers that take
\* the pairs in any order and whose statements interleave, every pair holds
\* the Jaccard value, the Fisher value and the intersection that the body
\* computes from the pair's own two gene sets and the universe size: the
\* three structures are those of the run that takes the pairs one after
\* another
C21_PairsIndependent ==
  pc = "jtop" =>
    /\ DOMAIN intersect = Pairs
    /\ \A p \in Pairs :
         LET g == BodyGlobals(p)
         IN  /\ jaccard[p] = JaccardValue(g.a, g.b, g.c)
             /\ fisherp[p] \in FisherTwoTail(g.a, g.b, g.c, g.d)
             /\ intersect[p] = g.intersection

\* C22: for every pair the loop has processed, the four cells handed to the
\* Fisher test are |a \cap b|, |a \ b|, |b \ a| and n - i - only_a - only_b
\* with n the number of distinct genes of both libraries; the four cells are
\* non-negative and sum to n.
C22_FisherCells ==
  \A p \in Processed :
    LET iset == ds1[p[1]]
        jset == ds2[p[2]]
        a == CellA(iset, jset)
        b == CellB(iset, jset)
        c == CellC(iset, jset)
        d == CellD(genes, a, b, c)
    IN  /\ genes = UniverseSize
        /\ a = Cardinality(iset \cap jset)
        /\ b = Cardinality(iset \ jset)
        /\ c = Cardinality(jset \ iset)
        /\ a >= 0 /\ b >= 0 /\ c >= 0 /\ d >= 0
        /\ a + b + c + d = genes

\* C23: the matrix the ternarization of the ABA notebook is given is the
\* z-scored matrix itself, with no transformation in between
C23_TernaryOfZscore ==
  (notebook = "ABA" /\ "ternary_matrix" \in DOMAIN env) =>
    env["ternary_matrix"].prov = Chain \o <<"ternary_matrix">>

\* C24: in the ABA notebook the matrix is written twice up to the end of the
\* normalization: the unfiltered file holds the matrix no stage has touched
\* (written before the symbol mapping), the filtered file holds the matrix
\* all stages up to the row z-score have been applied to, and no file holds
\* the matrix as it is after some but not all of the stages; until the
\* derivations start these two are the only files
C24_TwoCheckpoints ==
  notebook = "ABA" =>
    /\ \A f \in DOMAIN output :
         /\ output[f].prov = <<>> => f = "_matrix_unfiltered"
         /\ IsPrefix(output[f].prov, Chain) =>
              output[f].prov \in {<<>>, Chain}
         /\ output[f].prov = Chain => f = "_matrix_filtered"
    /\ "_matrix_unfiltered" \in DOMAIN output =>
         output["_matrix_unfiltered"].prov = <<>>
    /\ "_matrix_filtered" \in DOMAIN output =>
         output["_matrix_filtered"].prov = Chain
    /\ env["matrix"].prov # <<>> => "_matrix_unfiltered" \in DOMAIN output
    /\ env["matrix"].prov # Chain => DOMAIN output \subseteq {"_matrix_unfiltered"}
    /\ "gene_list" \notin DOMAIN env =>
         DOMAIN output \subseteq {"_matrix_unfiltered", "_matrix_filtered"}

\* the filtered matrix has just been written: the two checkpoints are the
\* files of the output directory and hold different matrices
C24_Witness ==
  /\ notebook = "ABA"
  /\ raisedAt = 0
  /\ cellNo = CellAt(550)
  /\ DOMAIN output = {"_matrix_unfiltered", "_matrix_filtered"}
  /\ output["_matrix_unfiltered"].data # output["_matrix_filtered"].data
  /\ Len(output["_matrix_filtered"].data.rows) > 0

\* C25: whatever frames map_symbols returns, the loop of lines 302-304 is
\* left after at most one pass: map_symbols is called at most twice, after
\* the second call count = dupes - df.shape[0] and the condition of the
\* while is false, and the loop is left after one call exactly when the
\* first call returned as many rows as it was given
C25_AtMostTwoCalls ==
  /\ calls <= 2
  /\ calls = 2 => /\ count = dupes - Len(df)
                  /\ ~RemapCondition
                  /\ before # dupes
  /\ (remapPc = "test" /\ calls = 1) => (RemapCondition <=> Len(df) # dupes)
  /\ remapPc = "done" => (calls = 1 <=> before = dupes)

\* the loop has been left after a second call that changed the row count
C25_Witness ==
  /\ remapPc = "done"
  /\ calls = 2
  /\ Len(df) # before
  /\ count # 0

\* the first and the last character of the line that is not whitespace
\* (for a line that has one)
FirstInk(line) ==
  CHOOSE n \in 1..Len(line) :
    line[n] \notin Whitespace /\ \A m \in 1..(n - 1) : line[m] \in Whitespace

LastInk(line) ==
  CHOOSE n \in 1..Len(line) :
    line[n] \notin Whitespace /\ \A m \in (n + 1)..Len(line) : line[m] \in Whitespace

\* the tabs among the characters lo..hi of the line
TabsIn(line, lo, hi) == {n \in lo..hi : line[n] = TAB}

\* the tab-delimited field of the characters lo..hi that starts at p
FieldFrom(line, lo, hi, p) ==
  LET stops == {n \in TabsIn(line, lo, hi) : n >= p} \cup {hi + 1}
  IN  SubSeq(line, p, (CHOOSE q \in stops : \A r \in stops : q <= r) - 1)

\* the first tab field of the characters lo..hi
TermIn(line, lo, hi) == FieldFrom(line, lo, hi, lo)

\* the tab fields of the characters lo..hi after the second one
GenesIn(line, lo, hi) ==
  LET tabs == TabsIn(line, lo, hi)
  IN  {FieldFrom(line, lo, hi, p + 1) :
         p \in {t \in tabs : \E u \in tabs : u < t}}

\* C26 as claimed: the library has exactly one entry per distinct first tab
\* field of the lines read, holding the tab fields after the second one of
\* the last line with that first field
C26_OneEntryPerFirstField ==
  gmtPc \in {"loop", "returned"} =>
    /\ \A m, n \in 1..Len(gmt) : gmt[m].term = gmt[n].term => m = n
    /\ {gmt[n].term : n \in 1..Len(gmt)}
         = {TermIn(file[k], 1, Len(file[k])) : k \in 1..gmtPos}
    /\ \A n \in 1..Len(gmt) :
         LET of == {k \in 1..gmtPos : TermIn(file[k], 1, Len(file[k])) = gmt[n].term}
             last == CHOOSE k \in of : \A j \in of : j <= k
         IN  gmt[n].geneset = GenesIn(file[last], 1, Len(file[last]))

\* the lines load_gmt has processed whose term is t, the term of a line
\* being what stands between its first character that is not whitespace and
\* the first tab after it
LinesOfTerm(t) ==
  {k \in 1..gmtPos : TermIn(file[k], FirstInk(file[k]), LastInk(file[k])) = t}

\* C26 (as amended): the library load_gmt builds has exactly one entry per
\* distinct term of the lines read so far, the fields of a line being those
\* of the line without its leading and trailing whitespace; the gene set of
\* a term is the set of the fields after the description on the last line
\* with that term, so a later line replaces an earlier one, a line of term
\* and description alone gives the empty set, and the description is not in
\* the set on account of being the description
C26_OneEntryPerTerm ==
  gmtPc \in {"loop", "returned"} =>
    /\ \A m, n \in 1..Len(gmt) : gmt[m].term = gmt[n].term => m = n
    /\ {gmt[n].term : n \in 1..Len(gmt)}
         = {TermIn(file[k], FirstInk(file[k]), LastInk(file[k])) : k \in 1..gmtPos}
    /\ \A n \in 1..Len(gmt) :
         LET last == CHOOSE k \in LinesOfTerm(gmt[n].term) :
                       \A j \in LinesOfTerm(gmt[n].term) : j <= k
             lo == FirstInk(file[last])
             hi == LastInk(file[last])
         IN  /\ gmt[n].geneset = GenesIn(file[last], lo, hi)
             /\ Cardinality(TabsIn(file[last], lo, hi)) = 1 => gmt[n].geneset = {}

\* a file of two lines has been loaded: the first is a term, a description
\* and a gene, the second starts with a tab and has the same term followed
\* by a description only; the one entry of the library is the empty gene set
C26_Witness ==
  /\ gmtPc = "returned"
  /\ file = << <<"a", TAB, "a", TAB, "a">>, <<TAB, "a", TAB, "a">> >>
  /\ Len(gmt) = 1
  /\ gmt[1].term = <<"a">>
  /\ gmt[1].geneset = {}

\* C27: the edge loops of the Reactome notebook do not stop before the last
\* 1-cell of the binary matrix; every edge made has a gene of the gene-ID
\* lookup as source and a pathway name as target, both keys of nodes; and
\* when the loops are done there is exactly one edge per 1-cell
C27_EdgesReferenceNodes ==
  /\ kgPc # "raised"
  /\ \A n \in 1..Len(edges) :
       /\ edges[n].source \in DOMAIN nodes
       /\ edges[n].source \in {Text(g) : g \in LookupKeys(geneid_lookup)}
       /\ edges[n].target \in DOMAIN nodes
       /\ nodes[edges[n].target].type = "pathway"
  /\ kgPc = "done" =>
       /\ Len(edges) = Cardinality(OneCells(binary_matrix))
       /\ \A c \in OneCells(binary_matrix) :
            Cardinality({n \in 1..Len(edges) :
                           /\ edges[n].source = Text(binary_matrix.rows[c[1]])
                           /\ edges[n].target_id = PathwayIdOf(binary_matrix.cols[c[2]])}) = 1
====
